---------------------------- MODULE Spec2Model ----------------------------
(***************************************************************************)
(* A model of the movie recommendation engine: the text normaliser, the    *)
(* similarity primitives, the fuzzy title resolver and the recommendation  *)
(* ranker of src/unnamed/part_000, and the earlier implementations of the  *)
(* same functions in src/js/algorithms.js (suffix Js); and of the script   *)
(* of the page in the same file: its globals, its event handlers and the   *)
(* callbacks of its requests to OMDb (the variable page).                  *)
(*                                                                         *)
(* A JavaScript string is a sequence of UTF-16 code units, each written as *)
(* a one-character TLA+ string ("U+0130" and "U+0307" name the two code    *)
(* units outside ASCII that the model uses).  A JavaScript number is an    *)
(* exact real of the form q + sqrt(t), q and t rational (see Num below):   *)
(* the rounding of IEEE doubles is not modelled.                           *)
(***************************************************************************)
EXTENDS Integers, Sequences, FiniteSets, TLC

VARIABLES preprocessCache, input, call, page

vars == <<preprocessCache, input, call, page>>

(***************************************************************************)
(* Bounds of the model.                                                    *)
(***************************************************************************)
MaxWords == 2

(***************************************************************************)
(* Code units and the String methods the engine uses.                      *)
(***************************************************************************)
LowerLetters ==
    <<"a","b","c","d","e","f","g","h","i","j","k","l","m",
      "n","o","p","q","r","s","t","u","v","w","x","y","z">>

UpperLetters ==
    <<"A","B","C","D","E","F","G","H","I","J","K","L","M",
      "N","O","P","Q","R","S","T","U","V","W","X","Y","Z">>

Digits == {"0","1","2","3","4","5","6","7","8","9"}

CapitalIDot == "U+0130"

CombiningDot == "U+0307"

Range(s) == {s[i] : i \in 1..Len(s)}

IsLowerLetter(c) == c \in Range(LowerLetters)

IsWhitespace(c) == c = " "

\* String.prototype.toLowerCase on one code unit: the Unicode default mapping.
\* U+0130 (capital I with dot above) maps to the two code units "i" U+0307.
toLowerCaseUnit(c) ==
    IF c \in Range(UpperLetters)
    THEN <<LowerLetters[CHOOSE i \in 1..26 : UpperLetters[i] = c]>>
    ELSE IF c = CapitalIDot THEN <<"i", CombiningDot>>
    ELSE <<c>>

RECURSIVE toLowerCase(_)
toLowerCase(s) ==
    IF s = <<>> THEN <<>>
    ELSE toLowerCaseUnit(Head(s)) \o toLowerCase(Tail(s))

RECURSIVE trimStart(_)
trimStart(s) ==
    IF s # <<>> /\ IsWhitespace(Head(s)) THEN trimStart(Tail(s)) ELSE s

RECURSIVE trimEnd(_)
trimEnd(s) ==
    IF s # <<>> /\ IsWhitespace(s[Len(s)])
    THEN trimEnd(SubSeq(s, 1, Len(s) - 1))
    ELSE s

trim(s) == trimEnd(trimStart(s))

\* String.prototype.includes
includes(hay, needle) ==
    \E i \in 0..(Len(hay) - Len(needle)) :
        SubSeq(hay, i + 1, i + Len(needle)) = needle

\* String.prototype.split with a regular expression of the form [seps]+ :
\* the pieces between the maximal runs of separators, an empty piece before a
\* leading run and after a trailing one, and <<"">> for the empty string.
RECURSIVE SplitFrom(_, _, _, _, _)
SplitFrom(s, seps, i, cur, inRun) ==
    IF i > Len(s) THEN <<cur>>
    ELSE IF s[i] \in seps
         THEN IF inRun
              THEN SplitFrom(s, seps, i + 1, cur, TRUE)
              ELSE <<cur>> \o SplitFrom(s, seps, i + 1, <<>>, TRUE)
         ELSE SplitFrom(s, seps, i + 1, Append(cur, s[i]), FALSE)

\* split(/\s+/)
splitWhitespace(s) == SplitFrom(s, {" "}, 1, <<>>, FALSE)

\* split(/[\s:]+/)
splitSpaceColon(s) == SplitFrom(s, {" ", ":"}, 1, <<>>, FALSE)

\* Array.prototype.join(' ')
RECURSIVE joinSpace(_)
joinSpace(arr) ==
    IF arr = <<>> THEN <<>>
    ELSE IF Len(arr) = 1 THEN arr[1]
    ELSE arr[1] \o <<" ">> \o joinSpace(Tail(arr))

Max(a, b) == IF a >= b THEN a ELSE b

Min(a, b) == IF a <= b THEN a ELSE b

Abs(a) == IF a >= 0 THEN a ELSE -a

\* The element of a set of one element
TheOne(S) == CHOOSE x \in S : TRUE

(***************************************************************************)
(* Numbers.  A rational is <<n, d>> in lowest terms with d > 0.            *)
(***************************************************************************)
RECURSIVE GCD(_, _)
GCD(a, b) == IF b = 0 THEN a ELSE GCD(b, a % b)

RNorm(n, d) ==
    LET g == GCD(Abs(n), Abs(d))
        s == IF d < 0 THEN -1 ELSE 1
    IN  IF n = 0 THEN <<0, 1>> ELSE <<s * (n \div g), s * (d \div g)>>

RInt(k) == <<k, 1>>

RAdd(a, b) ==
    LET g == GCD(a[2], b[2])
    IN  RNorm(a[1] * (b[2] \div g) + b[1] * (a[2] \div g), (a[2] \div g) * b[2])

RNeg(a) == <<-a[1], a[2]>>

RSub(a, b) == RAdd(a, RNeg(b))

RMul(a, b) ==
    LET g1 == GCD(Abs(a[1]), b[2])
        g2 == GCD(Abs(b[1]), a[2])
    IN  IF a[1] = 0 \/ b[1] = 0 THEN <<0, 1>>
        ELSE RNorm((a[1] \div g1) * (b[1] \div g2), (a[2] \div g2) * (b[2] \div g1))

RDiv(a, b) == IF b[1] > 0 THEN RMul(a, <<b[2], b[1]>>) ELSE RMul(a, <<-b[2], -b[1]>>)

RAbs(a) == <<Abs(a[1]), a[2]>>

Sign(k) == IF k > 0 THEN 1 ELSE IF k < 0 THEN -1 ELSE 0

\* The sign of n1/d1 - n2/d2 (d1, d2 > 0), by the Euclidean algorithm, so that no
\* product of the two fractions' terms is formed.
RECURSIVE FracCmp(_, _, _, _)
FracCmp(n1, d1, n2, d2) ==
    LET q1 == n1 \div d1
        q2 == n2 \div d2
        r1 == n1 % d1
        r2 == n2 % d2
    IN  IF q1 # q2 THEN Sign(q1 - q2)
        ELSE IF r1 = 0 \/ r2 = 0 THEN Sign(r1 - r2)
        ELSE FracCmp(d2, r2, d1, r1)

RCmp(a, b) == FracCmp(a[1], a[2], b[1], b[2])

RLeq(a, b) == RCmp(a, b) <= 0

RLess(a, b) == RCmp(a, b) < 0

\* <<q, r>> with n * 2^k = q * d + r and 0 <= r < d (d > 0), one binary digit
\* at a time.
RECURSIVE ShiftDivMod(_, _, _)
ShiftDivMod(n, d, k) ==
    IF k = 0 THEN <<n \div d, n % d>>
    ELSE LET p == ShiftDivMod(n, d, k - 1)
         IN  IF 2 * p[2] >= d THEN <<2 * p[1] + 1, 2 * p[2] - d>>
             ELSE <<2 * p[1], 2 * p[2]>>

\* floor(a * 2^k) for a rational a
RFloorShift(a, k) == ShiftDivMod(a[1], a[2], k)[1]

\* floor(sqrt(x)) for an integer x >= 0, by bisection on lo <= sqrt(x) < hi
RECURSIVE ISqrtIn(_, _, _)
ISqrtIn(x, lo, hi) ==
    IF hi - lo <= 1 THEN lo
    ELSE LET mid == (lo + hi) \div 2
         IN  IF mid * mid <= x THEN ISqrtIn(x, mid, hi) ELSE ISqrtIn(x, lo, mid)

ISqrt(x) == ISqrtIn(x, 0, 46341)

IsSquare(x) == ISqrt(x) * ISqrt(x) = x

(***************************************************************************)
(* A Num is the real q + sqrt(t): q and t rational, t >= 0, and t = 0      *)
(* unless sqrt(t) is irrational.  The form is unique, so two Nums are the  *)
(* same real exactly when they are equal.  Every score of the engine has   *)
(* this form, since it holds at most one cosine term.                      *)
(***************************************************************************)
NRat(a) == [q |-> a, t |-> <<0, 1>>]

NInt(k) == NRat(RInt(k))

\* sqrt(a) for a rational a >= 0
NSqrt(a) ==
    IF IsSquare(a[1]) /\ IsSquare(a[2])
    THEN NRat(RNorm(ISqrt(a[1]), ISqrt(a[2])))
    ELSE [q |-> <<0, 1>>, t |-> a]

\* k * x for a rational k >= 0
NScale(k, x) == [q |-> RMul(k, x.q), t |-> RMul(RMul(k, k), x.t)]

\* x + y, defined when the two irrational parts are equal or one is absent
NAdd(x, y) ==
    [q |-> RAdd(x.q, y.q),
     t |-> IF y.t = <<0, 1>> THEN x.t
           ELSE IF x.t = <<0, 1>> THEN y.t
           ELSE RMul(<<4, 1>>, CHOOSE t \in {x.t} : t = y.t)]

\* x - a for a rational a
NSubRat(x, a) == [q |-> RSub(x.q, a), t |-> x.t]

\* a - x for a rational a and a rational x
NRatSub(a, x) == [q |-> RSub(a, CHOOSE q \in {x.q} : x.t = <<0, 1>>), t |-> <<0, 1>>]

Precision == 13

\* floor(x * 2^Precision) <= x * 2^Precision < NLow(x) + 2
NLow(x) == RFloorShift(x.q, Precision) + ISqrt(RFloorShift(x.t, 2 * Precision))

\* The sign of x - y.  Exact: equal Nums are equal reals, Nums with the same
\* irrational part or the same rational part are compared on the other part, and
\* any other pair is decided by enclosing both in intervals of width 2^(1-Precision);
\* a pair too close for that has no value here and stops the evaluation.
NCmp(x, y) ==
    IF x.t = y.t THEN RCmp(x.q, y.q)
    ELSE IF x.q = y.q THEN RCmp(x.t, y.t)
    ELSE CHOOSE s \in {-1, 1} :
            /\ s = 1 => NLow(x) >= NLow(y) + 2
            /\ s = -1 => NLow(y) >= NLow(x) + 2

NLeq(x, y) == NCmp(x, y) <= 0

NLess(x, y) == NCmp(x, y) < 0

NZero == NInt(0)

NOne == NInt(1)

InUnitInterval(x) == NLeq(NZero, x) /\ NLeq(x, NOne)

(***************************************************************************)
(* The text normaliser (part_000).  Every function that reads or fills the *)
(* cache takes it and returns [ret |-> its value, cache |-> the cache      *)
(* after the call].                                                        *)
(***************************************************************************)
STOPWORDS == {
    <<"t","h","e">>, <<"a">>, <<"a","n">>, <<"a","n","d">>, <<"o","r">>, <<"b","u","t">>,
    <<"i","n">>, <<"o","n">>, <<"a","t">>, <<"t","o">>, <<"f","o","r">>, <<"o","f">>,
    <<"w","i","t","h">>, <<"b","y">>, <<"f","r","o","m">>, <<"a","s">>, <<"i","s">>,
    <<"w","a","s">>, <<"a","r","e">>, <<"w","e","r","e">>, <<"b","e","e","n">>,
    <<"b","e">>, <<"h","a","v","e">>, <<"h","a","s">>, <<"h","a","d">>, <<"d","o">>,
    <<"d","o","e","s">>, <<"d","i","d">>, <<"w","i","l","l">>, <<"w","o","u","l","d">>,
    <<"c","o","u","l","d">>, <<"s","h","o","u","l","d">>, <<"m","a","y">>,
    <<"m","i","g","h","t">>, <<"m","u","s","t">>, <<"c","a","n">>, <<"t","h","i","s">>,
    <<"t","h","a","t">>, <<"t","h","e","s","e">>, <<"t","h","o","s","e">>, <<"i","t">>,
    <<"i","t","s">>, <<"h","i","s">>, <<"h","e","r">>, <<"t","h","e","i","r">>,
    <<"o","u","r">> }

CacheLimit == 1000

EmptyCache == [text \in {} |-> <<>>]

\* /^[a-z]+$/.test(word)
IsLowerAlpha(word) == word # <<>> /\ \A i \in 1..Len(word) : IsLowerLetter(word[i])

\* Mutant: the stopwords are kept
IsMeaningfulWord_KeepsStopwords(word) ==
    Len(word) > 2 /\ IsLowerAlpha(word)

IsMeaningfulWord(word) ==
    Len(word) > 2 /\ word \notin STOPWORDS /\ IsLowerAlpha(word)

\* Mutant: an entry is stored while the cache holds no more than the limit
preprocessText_StoresAtLimit(cache, text) ==
    IF text \in DOMAIN cache
    THEN [ret |-> cache[text], cache |-> cache]
    ELSE LET result == SelectSeq(splitWhitespace(toLowerCase(text)), IsMeaningfulWord)
         IN  [ret |-> result,
              cache |-> IF Cardinality(DOMAIN cache) <= CacheLimit
                        THEN (text :> result) @@ cache
                        ELSE cache]

\* Mutant: the pieces are cached as they are split, before the filter
preprocessText_CachesPieces(cache, text) ==
    IF text \in DOMAIN cache
    THEN [ret |-> cache[text], cache |-> cache]
    ELSE LET pieces == splitWhitespace(toLowerCase(text))
         IN  [ret |-> SelectSeq(pieces, IsMeaningfulWord),
              cache |-> IF Cardinality(DOMAIN cache) < CacheLimit
                        THEN (text :> pieces) @@ cache
                        ELSE cache]

preprocessText(cache, text) ==
    IF text \in DOMAIN cache
    THEN [ret |-> cache[text], cache |-> cache]
    ELSE LET result == SelectSeq(splitWhitespace(toLowerCase(text)), IsMeaningfulWord)
         IN  [ret |-> result,
              cache |-> IF Cardinality(DOMAIN cache) < CacheLimit
                        THEN (text :> result) @@ cache
                        ELSE cache]

(***************************************************************************)
(* The similarity primitives (part_000).                                   *)
(***************************************************************************)
\* Mutant: the union counted as size1 + size2, the intersection not taken off
jaccardSimilarity_UnionAsSum(cache, str1, str2) ==
    LET p1 == preprocessText(cache, str1)
        p2 == preprocessText(p1.cache, str2)
        set1 == Range(p1.ret)
        set2 == Range(p2.ret)
        intersectionCount == Cardinality({item \in set1 : item \in set2})
        unionSize == Cardinality(set1) + Cardinality(set2)
    IN  [ret |-> IF set1 = {} \/ set2 = {} THEN NZero
                 ELSE IF unionSize = 0 THEN NZero
                 ELSE NRat(RNorm(intersectionCount, unionSize)),
         cache |-> p2.cache]

jaccardSimilarity(cache, str1, str2) ==
    LET p1 == preprocessText(cache, str1)
        p2 == preprocessText(p1.cache, str2)
        set1 == Range(p1.ret)
        set2 == Range(p2.ret)
        intersectionCount == Cardinality({item \in set1 : item \in set2})
        unionSize == Cardinality(set1) + Cardinality(set2) - intersectionCount
    IN  [ret |-> IF set1 = {} \/ set2 = {} THEN NZero
                 ELSE IF unionSize = 0 THEN NZero
                 ELSE NRat(RNorm(intersectionCount, unionSize)),
         cache |-> p2.cache]

\* The number of occurrences of word in words: freq.get(word) || 0
Count(words, word) == Cardinality({i \in 1..Len(words) : words[i] = word})

RECURSIVE SumOver(_, _)
SumOver(S, f) ==
    IF S = {} THEN 0
    ELSE LET x == CHOOSE y \in S : TRUE
         IN  f[x] + SumOver(S \ {x}, f)

\* dotProduct / (Math.sqrt(m1) * Math.sqrt(m2)) for integers dotProduct >= 0
\* and m1, m2 > 0
DivByMagnitudes(dotProduct, m1, m2) == NSqrt(RNorm(dotProduct * dotProduct, m1 * m2))

cosineSimilarity(cache, str1, str2) ==
    LET p1 == preprocessText(cache, str1)
        p2 == preprocessText(p1.cache, str2)
        words1 == p1.ret
        words2 == p2.ret
        allWords == Range(words1) \cup Range(words2)
        dotProduct == SumOver(allWords,
                        [w \in allWords |-> Count(words1, w) * Count(words2, w)])
        magnitude1 == SumOver(allWords,
                        [w \in allWords |-> Count(words1, w) * Count(words1, w)])
        magnitude2 == SumOver(allWords,
                        [w \in allWords |-> Count(words2, w) * Count(words2, w)])
    IN  [ret |-> IF Len(words1) = 0 \/ Len(words2) = 0 THEN NZero
                 ELSE IF magnitude1 = 0 \/ magnitude2 = 0 THEN NZero
                 ELSE DivByMagnitudes(dotProduct, magnitude1, magnitude2),
         cache |-> p2.cache]

Min3(a, b, c) == Min(a, Min(b, c))

\* The inner loop: the columns 0..j of currRow for row i, given prevRow (row
\* i - 1).  Rows are indexed 1..len2+1 for the columns 0..len2.
RECURSIVE FillRow(_, _, _, _, _)
FillRow(s1, s2, i, prevRow, j) ==
    IF j = 0 THEN <<i>>
    ELSE TheOne({ Append(currRow,
                         IF s1[i] = s2[j] THEN prevRow[j]
                         ELSE Min3(prevRow[j + 1] + 1, currRow[j] + 1, prevRow[j] + 1))
                   :  currRow \in {FillRow(s1, s2, i, prevRow, j - 1)} })

\* The outer loop: prevRow after the pass for row i (and the swap)
RECURSIVE TwoRows(_, _, _)
TwoRows(s1, s2, i) ==
    IF i = 0 THEN [j \in 1..(Len(s2) + 1) |-> j - 1]
    ELSE TheOne({ FillRow(s1, s2, i, prevRow, Len(s2))
                   :  prevRow \in {TwoRows(s1, s2, i - 1)} })

\* Mutant: the early termination taken at lengthDiff >= max(len1, len2) * 0.5
levenshteinDistance_HalfInclusive(str1, str2) ==
    TheOne({ LET len1 == Len(s1)
                 len2 == Len(s2)
                 lengthDiff == Abs(len1 - len2)
             IN  IF 2 * lengthDiff >= Max(len1, len2)
                 THEN Max(len1, len2)
                 ELSE TwoRows(s1, s2, len1)[len2 + 1]
              :  s1 \in {toLowerCase(str1)}, s2 \in {toLowerCase(str2)} })

\* 2 * lengthDiff > max(len1, len2) is lengthDiff > max(len1, len2) * 0.5
levenshteinDistance(str1, str2) ==
    TheOne({ LET len1 == Len(s1)
                 len2 == Len(s2)
                 lengthDiff == Abs(len1 - len2)
             IN  IF 2 * lengthDiff > Max(len1, len2)
                 THEN Max(len1, len2)
                 ELSE TwoRows(s1, s2, len1)[len2 + 1]
              :  s1 \in {toLowerCase(str1)}, s2 \in {toLowerCase(str2)} })

\* Mutant: the distance divided by the first string's length
levenshteinSimilarity_FirstLength(str1, str2) ==
    LET distance == levenshteinDistance(str1, str2)
        maxLength == Len(str1)
    IN  IF maxLength = 0 THEN NOne
        ELSE NRat(RSub(RInt(1), RNorm(distance, maxLength)))

levenshteinSimilarity(str1, str2) ==
    LET distance == levenshteinDistance(str1, str2)
        maxLength == Max(Len(str1), Len(str2))
    IN  IF maxLength = 0 THEN NOne
        ELSE NRat(RSub(RInt(1), RNorm(distance, maxLength)))

combinedSimilarity(cache, str1, str2) ==
    LET jaccard == jaccardSimilarity(cache, str1, str2)
        cosine == cosineSimilarity(jaccard.cache, str1, str2)
        levenshtein == levenshteinSimilarity(str1, str2)
    IN  [ret |-> NAdd(NAdd(NScale(<<6, 10>>, cosine.ret), NScale(<<3, 10>>, jaccard.ret)),
                      NScale(<<1, 10>>, levenshtein)),
         cache |-> cosine.cache]

(***************************************************************************)
(* The same primitives as src/js/algorithms.js defines them: no normaliser *)
(* and no cache, every piece of split(/\s+/) is a word.                    *)
(***************************************************************************)
jaccardSimilarityJs(str1, str2) ==
    LET set1 == Range(splitWhitespace(toLowerCase(str1)))
        set2 == Range(splitWhitespace(toLowerCase(str2)))
        intersection == {x \in set1 : x \in set2}
        union == set1 \cup set2
    IN  IF Cardinality(union) = 0 THEN NZero
        ELSE NRat(RNorm(Cardinality(intersection), Cardinality(union)))

cosineSimilarityJs(str1, str2) ==
    LET words1 == splitWhitespace(toLowerCase(str1))
        words2 == splitWhitespace(toLowerCase(str2))
        vocabulary == Range(words1) \cup Range(words2)
        vector1 == [word \in vocabulary |-> Count(words1, word)]
        vector2 == [word \in vocabulary |-> Count(words2, word)]
        dotProduct == SumOver(vocabulary, [w \in vocabulary |-> vector1[w] * vector2[w]])
        magnitude1 == SumOver(vocabulary, [w \in vocabulary |-> vector1[w] * vector1[w]])
        magnitude2 == SumOver(vocabulary, [w \in vocabulary |-> vector2[w] * vector2[w]])
    IN  IF magnitude1 = 0 \/ magnitude2 = 0 THEN NZero
        ELSE DivByMagnitudes(dotProduct, magnitude1, magnitude2)

\* The full matrix after the rows 0..i are filled, a sequence of rows:
\* dp[i + 1][j + 1] is the code's dp[i][j].
\* The inner loop: the columns 0..j of row i of dp, the rows before it filled.
\* dp is indexed 1..len1+1 for the rows 0..len1, a row 1..len2+1 for the columns.
RECURSIVE FillMatrixRow(_, _, _, _, _)
FillMatrixRow(s1, s2, i, dp, j) ==
    IF j = 0 THEN <<i>>
    ELSE TheOne({ Append(row,
                         IF s1[i] = s2[j] THEN dp[i][j]
                         ELSE Min3(dp[i][j + 1] + 1, row[j] + 1, dp[i][j] + 1))
                   :  row \in {FillMatrixRow(s1, s2, i, dp, j - 1)} })

\* The outer loop: the rows 0..i of dp
RECURSIVE FillMatrix(_, _, _)
FillMatrix(s1, s2, i) ==
    IF i = 0 THEN <<[j \in 1..(Len(s2) + 1) |-> j - 1]>>
    ELSE TheOne({ Append(dp, FillMatrixRow(s1, s2, i, dp, Len(s2)))
                   :  dp \in {FillMatrix(s1, s2, i - 1)} })

levenshteinDistanceJs(str1, str2) ==
    TheOne({ LET len1 == Len(s1)
                 len2 == Len(s2)
             IN  TheOne({ dp[len1 + 1][len2 + 1] : dp \in {FillMatrix(s1, s2, len1)} })
              :  s1 \in {toLowerCase(str1)}, s2 \in {toLowerCase(str2)} })

levenshteinSimilarityJs(str1, str2) ==
    LET distance == levenshteinDistanceJs(str1, str2)
        maxLength == Max(Len(str1), Len(str2))
    IN  IF maxLength = 0 THEN NOne
        ELSE NRat(RSub(RInt(1), RNorm(distance, maxLength)))

combinedSimilarityJs(str1, str2) ==
    LET jaccard == jaccardSimilarityJs(str1, str2)
        cosine == cosineSimilarityJs(str1, str2)
        levenshtein == levenshteinSimilarityJs(str1, str2)
    IN  NAdd(NAdd(NScale(<<5, 10>>, cosine), NScale(<<3, 10>>, jaccard)),
             NScale(<<2, 10>>, levenshtein))

(***************************************************************************)
(* Movies.  A movie is a record with the fields id, title, rating, genre,  *)
(* description and director; strings are sequences of code units, a rating *)
(* is a rational, genre an array of strings.  null is the director of a    *)
(* movie that has none, NoMovie the null that findClosestMatch returns as  *)
(* its movie when nothing matched and that calculateMovieSimilarity takes  *)
(* as its referenceMovie by default.                                       *)
(***************************************************************************)
null == <<"null">>

\* The value of a field that a record does not have
undefined == <<"undefined">>

NoMovie == [null |-> TRUE]

\* !value for a string, null or undefined
IsFalsy(value) == value = null \/ value = undefined \/ value = <<>>

\* !value for an array, null or undefined; where an array is expected null is
\* written <<null>> and undefined <<undefined>>, and an empty array is not falsy
IsFalsyArray(value) == value = <<null>> \/ value = <<undefined>>

\* Template literal `${a} ${b}`
Spaced(a, b) == a \o <<" ">> \o b

\* Mutant: the genre labels are compared as they are written
genreSimilarity_CaseSensitive(genres1, genres2) ==
    IF IsFalsyArray(genres1) \/ IsFalsyArray(genres2)
           \/ Len(genres1) = 0 \/ Len(genres2) = 0
    THEN NZero
    ELSE LET set1 == Range(genres1)
             set2 == Range(genres2)
             intersection == {x \in set1 : x \in set2}
             union == set1 \cup set2
         IN  IF Cardinality(union) = 0 THEN NZero
             ELSE NRat(RNorm(Cardinality(intersection), Cardinality(union)))

genreSimilarity(genres1, genres2) ==
    IF IsFalsyArray(genres1) \/ IsFalsyArray(genres2)
           \/ Len(genres1) = 0 \/ Len(genres2) = 0
    THEN NZero
    ELSE LET set1 == {toLowerCase(g) : g \in Range(genres1)}
             set2 == {toLowerCase(g) : g \in Range(genres2)}
             intersection == {x \in set1 : x \in set2}
             union == set1 \cup set2
         IN  IF Cardinality(union) = 0 THEN NZero
             ELSE NRat(RNorm(Cardinality(intersection), Cardinality(union)))

ratingSimilarity(rating1, rating2) ==
    LET difference == RAbs(RSub(rating1, rating2))
    IN  NRat(RSub(RInt(1), RDiv(difference, RInt(10))))

directorSimilarity(director1, director2) ==
    IF IsFalsy(director1) \/ IsFalsy(director2) THEN NZero
    ELSE IF toLowerCase(director1) = toLowerCase(director2) THEN NOne ELSE NZero

\* Mutant: the four weights of the final score all 0.25
WeightedScore_EqualWeights(textSimilarity, genreScore, ratingScore, directorScore) ==
    NAdd(NAdd(NAdd(NScale(RNorm(25, 100), textSimilarity),
                   NScale(RNorm(25, 100), genreScore)),
              NScale(RNorm(25, 100), ratingScore)),
         NScale(RNorm(25, 100), directorScore))

\* The final score of a movie against a reference movie
WeightedScore(textSimilarity, genreScore, ratingScore, directorScore) ==
    NAdd(NAdd(NAdd(NScale(RNorm(365, 1000), textSimilarity),
                   NScale(RNorm(25, 100), genreScore)),
              NScale(RNorm(35, 100), ratingScore)),
         NScale(RNorm(35, 1000), directorScore))

\* referenceMovie is a movie or NoMovie
calculateMovieSimilarity(cache, movie, query, algorithm, referenceMovie) ==
    LET movieText == Spaced(Spaced(movie.description, movie.description),
                            joinSpace(movie.genre))
    IN  TheOne({
            IF referenceMovie # NoMovie
            THEN LET genreScore == genreSimilarity(movie.genre, referenceMovie.genre)
                     ratingScore == ratingSimilarity(movie.rating, referenceMovie.rating)
                     directorScore ==
                         directorSimilarity(movie.director, referenceMovie.director)
                 IN  [ret |-> WeightedScore(text.ret, genreScore, ratingScore, directorScore),
                      cache |-> text.cache]
            ELSE [ret |-> text.ret, cache |-> text.cache]
            : text \in {
                CASE algorithm = "jaccard" -> jaccardSimilarity(cache, movieText, query)
                  [] algorithm = "cosine" -> cosineSimilarity(cache, movieText, query)
                  [] algorithm = "levenshtein" ->
                        [ret |-> levenshteinSimilarity(movieText, query), cache |-> cache]
                  [] OTHER -> combinedSimilarity(cache, movieText, query)} })

calculateMovieSimilarityJs(movie, query, algorithm, referenceMovie) ==
    LET movieText == Spaced(Spaced(movie.description, movie.description),
                            joinSpace(movie.genre))
        textSimilarity ==
            CASE algorithm = "jaccard" -> jaccardSimilarityJs(movieText, query)
              [] algorithm = "cosine" -> cosineSimilarityJs(movieText, query)
              [] algorithm = "levenshtein" -> levenshteinSimilarityJs(movieText, query)
              [] OTHER -> combinedSimilarityJs(movieText, query)
    IN  IF referenceMovie # NoMovie
        THEN LET genreScore == genreSimilarity(movie.genre, referenceMovie.genre)
                 ratingScore == ratingSimilarity(movie.rating, referenceMovie.rating)
                 directorScore == directorSimilarity(movie.director, referenceMovie.director)
             IN  WeightedScore(textSimilarity, genreScore, ratingScore, directorScore)
        ELSE textSimilarity

\* The words of more than two code units of a lowercased title or search term
LongWords(lower) == {w \in Range(splitWhitespace(lower)) : Len(w) > 2}

\* The similarity findClosestMatch gives one movie's title
MatchSimilarity(movie, searchTerm) ==
    LET searchLower == trim(toLowerCase(searchTerm))
        titleLower == toLowerCase(movie.title)
    IN  IF titleLower = searchLower THEN NOne
        ELSE IF includes(titleLower, searchLower)
        THEN NRat(RAdd(RNorm(85, 100),
                       RMul(RNorm(Len(searchLower), Len(titleLower)), RNorm(15, 100))))
        ELSE IF includes(searchLower, titleLower) THEN NRat(RNorm(80, 100))
        ELSE LET searchWords == LongWords(searchLower)
                 titleWords == LongWords(titleLower)
             IN  IF Cardinality(searchWords) > 0 /\ Cardinality(titleWords) > 0
                 THEN LET matchingWords ==
                              Cardinality({word \in searchWords : word \in titleWords})
                          wordOverlap ==
                              RNorm(matchingWords,
                                    Max(Cardinality(searchWords), Cardinality(titleWords)))
                          levenshtein == levenshteinSimilarity(movie.title, searchTerm)
                      IN  NAdd(NRat(RMul(wordOverlap, RNorm(7, 10))),
                               NScale(RNorm(3, 10), levenshtein))
                 ELSE levenshteinSimilarity(movie.title, searchTerm)

\* Mutant: a movie replaces the best one when its similarity is not lower
RECURSIVE ClosestAmong_LastOfTies(_, _, _)
ClosestAmong_LastOfTies(movies, searchTerm, i) ==
    IF i = 0 THEN [movie |-> NoMovie, similarity |-> NZero]
    ELSE TheOne({ IF NLeq(best.similarity, similarity)
                  THEN [movie |-> movies[i], similarity |-> similarity]
                  ELSE best
                   :  best \in {ClosestAmong_LastOfTies(movies, searchTerm, i - 1)},
                      similarity \in {MatchSimilarity(movies[i], searchTerm)} })

\* Mutant: the highest similarity starts below 0
RECURSIVE ClosestAmong_StartsBelowZero(_, _, _)
ClosestAmong_StartsBelowZero(movies, searchTerm, i) ==
    IF i = 0 THEN [movie |-> NoMovie, similarity |-> NRat(RInt(-1))]
    ELSE TheOne({ IF NLess(best.similarity, similarity)
                  THEN [movie |-> movies[i], similarity |-> similarity]
                  ELSE best
                   :  best \in {ClosestAmong_StartsBelowZero(movies, searchTerm, i - 1)},
                      similarity \in {MatchSimilarity(movies[i], searchTerm)} })

\* The forEach of findClosestMatch over the first i movies
RECURSIVE ClosestAmong(_, _, _)
ClosestAmong(movies, searchTerm, i) ==
    IF i = 0 THEN [movie |-> NoMovie, similarity |-> NZero]
    ELSE TheOne({ IF NLess(best.similarity, similarity)
                  THEN [movie |-> movies[i], similarity |-> similarity]
                  ELSE best
                   :  best \in {ClosestAmong(movies, searchTerm, i - 1)},
                      similarity \in {MatchSimilarity(movies[i], searchTerm)} })

findClosestMatch(movies, searchTerm) == ClosestAmong(movies, searchTerm, Len(movies))

RECURSIVE ClosestAmongJs(_, _, _)
ClosestAmongJs(movies, searchTerm, i) ==
    IF i = 0 THEN [movie |-> NoMovie, similarity |-> NZero]
    ELSE TheOne({ IF NLess(best.similarity, similarity)
                  THEN [movie |-> movies[i], similarity |-> similarity]
                  ELSE best
                   :  best \in {ClosestAmongJs(movies, searchTerm, i - 1)},
                      similarity \in {levenshteinSimilarityJs(movies[i].title, searchTerm)} })

findClosestMatchJs(movies, searchTerm) == ClosestAmongJs(movies, searchTerm, Len(movies))

\* { ...movie, ...extra }: the fields of extra over those of movie
Spread(movie, extra) == extra @@ movie

\* Array.prototype.slice(0, end)
sliceTo(arr, end) ==
    LET last == IF end < 0 THEN Max(Len(arr) + end, 0) ELSE Min(end, Len(arr))
    IN  SubSeq(arr, 1, last)

\* Mutant: an entry goes ahead of the entries of equal score that precede it
RECURSIVE SortDescending_TiesReversed(_, _, _)
SortDescending_TiesReversed(arr, field, n) ==
    IF n = 0 THEN <<>>
    ELSE TheOne({ LET ahead == Cardinality({k \in 1..Len(sorted) :
                                                NLess(item[field], sorted[k][field])})
                  IN  SubSeq(sorted, 1, ahead) \o <<item>>
                          \o SubSeq(sorted, ahead + 1, Len(sorted))
                   :  sorted \in {SortDescending_TiesReversed(arr, field, n - 1)},
                      item \in {arr[n]} })

\* Array.prototype.sort((a, b) => b[field] - a[field]): a stable sort, highest
\* first, of the first n entries
RECURSIVE SortDescending(_, _, _)
SortDescending(arr, field, n) ==
    IF n = 0 THEN <<>>
    ELSE TheOne({ LET ahead == Cardinality({k \in 1..Len(sorted) :
                                                NLeq(item[field], sorted[k][field])})
                  IN  SubSeq(sorted, 1, ahead) \o <<item>>
                          \o SubSeq(sorted, ahead + 1, Len(sorted))
                   :  sorted \in {SortDescending(arr, field, n - 1)}, item \in {arr[n]} })

\* Mutant: no score of 0.80 for a title that the search term contains
TitleScore_NoSuperstring(movie, searchTerm) ==
    LET searchLower == trim(toLowerCase(searchTerm))
        titleLower == toLowerCase(movie.title)
    IN  IF titleLower = searchLower THEN NOne
        ELSE IF includes(titleLower, searchLower)
        THEN NRat(RAdd(RNorm(85, 100),
                       RMul(RNorm(Len(searchLower), Len(titleLower)), RNorm(15, 100))))
        ELSE LET searchWords == LongWords(searchLower)
                 titleWords == LongWords(titleLower)
             IN  IF Cardinality(searchWords) > 0 /\ Cardinality(titleWords) > 0
                 THEN LET matchingWords ==
                              Cardinality({word \in searchWords : word \in titleWords})
                          wordOverlap ==
                              RNorm(matchingWords,
                                    Max(Cardinality(searchWords), Cardinality(titleWords)))
                          levenshtein == levenshteinSimilarity(movie.title, searchTerm)
                      IN  NAdd(NRat(RMul(wordOverlap, RNorm(7, 10))),
                               NScale(RNorm(3, 10), levenshtein))
                 ELSE levenshteinSimilarity(movie.title, searchTerm)

\* The title score searchMovies gives one movie
TitleScore(movie, searchTerm) ==
    LET searchLower == trim(toLowerCase(searchTerm))
        titleLower == toLowerCase(movie.title)
    IN  IF titleLower = searchLower THEN NOne
        ELSE IF includes(titleLower, searchLower)
        THEN NRat(RAdd(RNorm(85, 100),
                       RMul(RNorm(Len(searchLower), Len(titleLower)), RNorm(15, 100))))
        ELSE IF includes(searchLower, titleLower) THEN NRat(RNorm(80, 100))
        ELSE LET searchWords == LongWords(searchLower)
                 titleWords == LongWords(titleLower)
             IN  IF Cardinality(searchWords) > 0 /\ Cardinality(titleWords) > 0
                 THEN LET matchingWords ==
                              Cardinality({word \in searchWords : word \in titleWords})
                          wordOverlap ==
                              RNorm(matchingWords,
                                    Max(Cardinality(searchWords), Cardinality(titleWords)))
                          levenshtein == levenshteinSimilarity(movie.title, searchTerm)
                      IN  NAdd(NRat(RMul(wordOverlap, RNorm(7, 10))),
                               NScale(RNorm(3, 10), levenshtein))
                 ELSE levenshteinSimilarity(movie.title, searchTerm)

\* The entry of searchMovies for one movie, after the entries in before
WithSearchScores(before, movie, searchTerm) ==
    TheOne({ LET contentScore == content.ret
                 overallScore == NAdd(NScale(RNorm(80, 100), titleScore),
                                      NScale(RNorm(20, 100), contentScore))
             IN  [ret |-> Append(before.ret,
                                 Spread(movie, [searchScore |-> overallScore,
                                                titleScore |-> titleScore,
                                                contentScore |-> contentScore])),
                  cache |-> content.cache]
              :  titleScore \in {TitleScore(movie, searchTerm)},
                 content \in {combinedSimilarity(before.cache,
                                                 Spaced(movie.description,
                                                        joinSpace(movie.genre)),
                                                 searchTerm)} })

\* The map of searchMovies over the first i movies
RECURSIVE SearchScored(_, _, _, _)
SearchScored(cache, movies, searchTerm, i) ==
    IF i = 0 THEN [ret |-> <<>>, cache |-> cache]
    ELSE TheOne({ WithSearchScores(before, movies[i], searchTerm)
                   :  before \in {SearchScored(cache, movies, searchTerm, i - 1)} })

\* Mutant: the poor matches are not filtered out
searchMovies_Unfiltered(cache, movies, searchTerm, maxResults) ==
    TheOne({ [ret |-> sliceTo(SortDescending(scored.ret, "searchScore", Len(scored.ret)),
                              maxResults),
              cache |-> scored.cache]
              :  scored \in {SearchScored(cache, movies, searchTerm, Len(movies))} })

searchMovies(cache, movies, searchTerm, maxResults) ==
    TheOne({ LET kept == SelectSeq(scored.ret,
                                   LAMBDA m : NLess(NRat(RNorm(1, 10)), m.searchScore))
             IN  [ret |-> sliceTo(SortDescending(kept, "searchScore", Len(kept)),
                                  maxResults),
                  cache |-> scored.cache]
              :  scored \in {SearchScored(cache, movies, searchTerm, Len(movies))} })

IsNumber(w) == Len(w) > 0 /\ \A i \in 1..Len(w) : w[i] \in Digits

FranchiseStopWords ==
    { <<"t","h","e">>, <<"a","n","d">>, <<"p","a","r","t">>, <<"v","o","l">>,
      <<"v","o","l","u","m","e">> }

\* The franchise bonus of one candidate
FranchiseBonus(movie, refTitleWords) ==
    IF Len(refTitleWords) > 0
    THEN LET movieTitleLower == toLowerCase(movie.title)
             matchingWords == Cardinality({k \in 1..Len(refTitleWords) :
                                              includes(movieTitleLower, refTitleWords[k])})
         IN  IF matchingWords > 0
             THEN RMul(RNorm(matchingWords, Len(refTitleWords)), RNorm(25, 100))
             ELSE RInt(0)
    ELSE RInt(0)

\* The entry of getRecommendations for one candidate, after the entries in before
WithSimilarityScore(before, movie, referenceText, algorithm, selectedMovie, refTitleWords) ==
    TheOne({ LET franchiseBonus == FranchiseBonus(movie, refTitleWords)
             IN  [ret |-> Append(before.ret,
                                 Spread(movie,
                                        [similarityScore |->
                                             NAdd(baseScore.ret, NRat(franchiseBonus))])),
                  cache |-> baseScore.cache]
              :  baseScore \in {calculateMovieSimilarity(before.cache, movie, referenceText,
                                                         algorithm, selectedMovie)} })

\* The map of getRecommendations over the first i candidates
RECURSIVE Recommended(_, _, _, _, _, _, _)
Recommended(cache, candidateMovies, referenceText, algorithm, selectedMovie, refTitleWords, i) ==
    IF i = 0 THEN [ret |-> <<>>, cache |-> cache]
    ELSE TheOne({ WithSimilarityScore(before, candidateMovies[i], referenceText, algorithm,
                                      selectedMovie, refTitleWords)
                   :  before \in {Recommended(cache, candidateMovies, referenceText,
                                              algorithm, selectedMovie, refTitleWords,
                                              i - 1)} })

\* The words of the selected movie's title kept for franchise matching
RefTitleWords(selectedMovie) ==
    SelectSeq(splitSpaceColon(toLowerCase(selectedMovie.title)),
              LAMBDA w : Len(w) >= 3 /\ ~IsNumber(w) /\ w \notin FranchiseStopWords)

\* The movies of another id that share a genre with the selected movie
SameGenreMovies(movies, selectedMovie) ==
    SelectSeq(movies,
              LAMBDA movie :
                  IF movie.id = selectedMovie.id THEN FALSE
                  ELSE \E k \in 1..Len(movie.genre) :
                           movie.genre[k] \in Range(selectedMovie.genre))

\* Mutant: the candidates are the movies of a shared genre, however few
CandidateMovies_SameGenreOnly(movies, selectedMovie, topN) ==
    SameGenreMovies(movies, selectedMovie)

CandidateMovies(movies, selectedMovie, topN) ==
    LET sameGenreMovies == SameGenreMovies(movies, selectedMovie)
    IN  IF Len(sameGenreMovies) >= topN * 2 THEN sameGenreMovies
        ELSE SelectSeq(movies, LAMBDA movie : movie.id # selectedMovie.id)

\* Mutant: the candidates are not sorted by their scores
getRecommendations_Unsorted(cache, movies, selectedMovie, algorithm, topN) ==
    LET referenceText == Spaced(selectedMovie.description, joinSpace(selectedMovie.genre))
        refTitleWords == RefTitleWords(selectedMovie)
        candidateMovies == CandidateMovies(movies, selectedMovie, topN)
    IN  TheOne({ [ret |-> sliceTo(scored.ret, topN), cache |-> scored.cache]
                  :  scored \in {Recommended(cache, candidateMovies, referenceText,
                                             algorithm, selectedMovie, refTitleWords,
                                             Len(candidateMovies))} })

\* Mutant: the fallback to all movies keeps the selected movie
getRecommendations_FallbackToAll(cache, movies, selectedMovie, algorithm, topN) ==
    LET referenceText == Spaced(selectedMovie.description, joinSpace(selectedMovie.genre))
        refTitleWords == RefTitleWords(selectedMovie)
        sameGenreMovies == SameGenreMovies(movies, selectedMovie)
        candidateMovies == IF Len(sameGenreMovies) >= topN * 2 THEN sameGenreMovies
                           ELSE movies
    IN  TheOne({ [ret |-> sliceTo(SortDescending(scored.ret, "similarityScore",
                                                 Len(scored.ret)),
                                  topN),
                  cache |-> scored.cache]
                  :  scored \in {Recommended(cache, candidateMovies, referenceText,
                                             algorithm, selectedMovie, refTitleWords,
                                             Len(candidateMovies))} })

getRecommendations(cache, movies, selectedMovie, algorithm, topN) ==
    LET referenceText == Spaced(selectedMovie.description, joinSpace(selectedMovie.genre))
        refTitleWords == RefTitleWords(selectedMovie)
        candidateMovies == CandidateMovies(movies, selectedMovie, topN)
    IN  TheOne({ [ret |-> sliceTo(SortDescending(scored.ret, "similarityScore",
                                                 Len(scored.ret)),
                                  topN),
                  cache |-> scored.cache]
                  :  scored \in {Recommended(cache, candidateMovies, referenceText,
                                             algorithm, selectedMovie, refTitleWords,
                                             Len(candidateMovies))} })

\* The map of getRecommendations (algorithms.js) over the first i movies of another id
RECURSIVE RecommendedJs(_, _, _, _, _)
RecommendedJs(others, referenceText, algorithm, selectedMovie, i) ==
    IF i = 0 THEN <<>>
    ELSE Append(RecommendedJs(others, referenceText, algorithm, selectedMovie, i - 1),
                Spread(others[i],
                       [similarityScore |->
                            calculateMovieSimilarityJs(others[i], referenceText, algorithm,
                                                       selectedMovie)]))

getRecommendationsJs(movies, selectedMovie, algorithm, topN) ==
    LET referenceText == Spaced(selectedMovie.description, joinSpace(selectedMovie.genre))
        others == SelectSeq(movies, LAMBDA movie : movie.id # selectedMovie.id)
    IN  TheOne({ sliceTo(SortDescending(scored, "similarityScore", Len(scored)), topN)
                  :  scored \in {RecommendedJs(others, referenceText, algorithm,
                                               selectedMovie, Len(others))} })

(***************************************************************************)
(* Inputs of the text primitives: the texts of at most MaxWords words of   *)
(* Vocabulary joined by single spaces.  The vocabulary holds two tokens    *)
(* one substitution apart, a capitalised stopword, and a word that         *)
(* toLowerCase lengthens, that is no token, and that ends in a space (so   *)
(* that texts end in a space or hold doubled spaces).                      *)
(***************************************************************************)
Vocabulary == {
    <<"c","a","t">>,
    <<"c","u","t">>,
    <<"T","h","e">>,
    <<CapitalIDot,"a"," ">> }

SeqsUpTo(S, n) == UNION {[1..k -> S] : k \in 0..n}

Texts == {joinSpace(ws) : ws \in SeqsUpTo(Vocabulary, MaxWords)}

(***************************************************************************)
(* Inputs of the catalog functions.  An id "n1" stands for the number 1    *)
(* and "s1" for the string "1", which === tells apart.  The movies hold    *)
(* two titles equal up to case, a title of two words, a title that ends in *)
(* a space and that toLowerCase lengthens, two movies of one id, a movie   *)
(* without genres, description and director, and a movie whose director is *)
(* null.  A catalog is an array of at most MaxMovies different ones.  The  *)
(* search terms hold a word that shares no letter with any title.          *)
(***************************************************************************)
MaxMovies == 3

MaxTopN == 2

MaxResults == 2

MoviePool == {
    [id |-> "n1", title |-> <<"c","a","t">>, rating |-> RInt(8),
     genre |-> << <<"W","a","r">> >>,
     description |-> <<"c","a","t"," ","c","u","t">>,
     director |-> <<"C","a","t">>],
    [id |-> "s1", title |-> <<"C","a","t">>, rating |-> RNorm(15, 2),
     genre |-> << <<"W","a","r">>, <<"S","p","y">> >>,
     description |-> <<"c","u","t">>,
     director |-> <<"c","a","t">>],
    [id |-> "n2", title |-> <<"c","a","t"," ","c","u","t">>, rating |-> RInt(8),
     genre |-> << <<"S","p","y">> >>,
     description |-> <<"c","a","t"," ","c","u","t">>,
     director |-> null],
    [id |-> "n1", title |-> <<CapitalIDot,"a"," ">>, rating |-> RInt(2),
     genre |-> <<>>,
     description |-> <<>>,
     director |-> <<>>] }

\* The arrays of at most MaxMovies different movies of the pool
Catalogs ==
    {ms \in SeqsUpTo(MoviePool, MaxMovies) :
        \A i, j \in 1..Len(ms) : i # j => ms[i] # ms[j]}

SearchTerms == {
    <<"C","a","t">>,
    <<"c","u","t"," ","c","a","t">>,
    <<"c","u">>,
    <<CapitalIDot,"a"," ">>,
    <<"d","o","g">>,
    <<>> }

Algorithms == {"jaccard", "cosine", "levenshtein", "combined", "other"}

\* Two more pairs of texts: two sentences with stopwords and one token in
\* common, and a text of whitespace only
ExampleTexts == {
    [str1 |-> <<"t","h","e"," ","g","r","e","a","t"," ","m","o","v","i","e">>,
     str2 |-> <<"a"," ","g","r","e","a","t"," ","f","i","l","m">>],
    [str1 |-> <<" "," ">>, str2 |-> <<>>] }

NoCall == [fn |-> "none", ret |-> 0]

\* The page of the specifications that run no script of the page
NoPage == [useOmdbApi |-> FALSE]

InitText ==
    /\ preprocessCache = EmptyCache
    /\ input \in {[str1 |-> a, str2 |-> b] : a \in Texts, b \in Texts} \cup ExampleTexts
    /\ call = NoCall
    /\ page = NoPage

\* Mutant: the scored entries are written over the catalog
Returns_OverCatalog(fn, r) ==
    /\ call.fn = "none"
    /\ call' = [fn |-> fn, ret |-> r.ret]
    /\ preprocessCache' = r.cache
    /\ input' = IF "movies" \in DOMAIN input THEN [input EXCEPT !.movies = r.ret]
                ELSE input
    /\ UNCHANGED page

\* A call that goes through the normaliser: r is [ret, cache]
Returns(fn, r) ==
    /\ call.fn = "none"
    /\ call' = [fn |-> fn, ret |-> r.ret]
    /\ preprocessCache' = r.cache
    /\ UNCHANGED <<input, page>>

\* A call that does not touch the cache
ReturnsValue(fn, v) ==
    /\ call.fn = "none"
    /\ call' = [fn |-> fn, ret |-> v]
    /\ UNCHANGED <<preprocessCache, input, page>>

CallPreprocessText ==
    Returns("preprocessText", preprocessText(preprocessCache, input.str1))

CallJaccardSimilarity ==
    Returns("jaccardSimilarity", jaccardSimilarity(preprocessCache, input.str1, input.str2))

CallCosineSimilarity ==
    Returns("cosineSimilarity", cosineSimilarity(preprocessCache, input.str1, input.str2))

CallLevenshteinDistance ==
    ReturnsValue("levenshteinDistance", levenshteinDistance(input.str1, input.str2))

CallLevenshteinSimilarity ==
    ReturnsValue("levenshteinSimilarity", levenshteinSimilarity(input.str1, input.str2))

CallCombinedSimilarity ==
    Returns("combinedSimilarity", combinedSimilarity(preprocessCache, input.str1, input.str2))

CallJaccardSimilarityJs ==
    ReturnsValue("jaccardSimilarityJs", jaccardSimilarityJs(input.str1, input.str2))

CallCosineSimilarityJs ==
    ReturnsValue("cosineSimilarityJs", cosineSimilarityJs(input.str1, input.str2))

CallLevenshteinDistanceJs ==
    ReturnsValue("levenshteinDistanceJs", levenshteinDistanceJs(input.str1, input.str2))

CallLevenshteinSimilarityJs ==
    ReturnsValue("levenshteinSimilarityJs", levenshteinSimilarityJs(input.str1, input.str2))

CallCombinedSimilarityJs ==
    ReturnsValue("combinedSimilarityJs", combinedSimilarityJs(input.str1, input.str2))

NextText ==
    \/ CallPreprocessText
    \/ CallJaccardSimilarity
    \/ CallCosineSimilarity
    \/ CallLevenshteinDistance
    \/ CallLevenshteinSimilarity
    \/ CallCombinedSimilarity
    \/ CallJaccardSimilarityJs
    \/ CallCosineSimilarityJs
    \/ CallLevenshteinDistanceJs
    \/ CallLevenshteinSimilarityJs
    \/ CallCombinedSimilarityJs

TextSpec == InitText /\ [][NextText]_vars

(***************************************************************************)
(* The title matcher and the search: one call on a catalog and a search    *)
(* term.                                                                   *)
(***************************************************************************)
InitSearch ==
    /\ preprocessCache = EmptyCache
    /\ input \in {[movies |-> ms, searchTerm |-> term, maxResults |-> n] :
                     ms \in Catalogs, term \in SearchTerms, n \in 0..MaxResults}
    /\ call = NoCall
    /\ page = NoPage

CallFindClosestMatch ==
    ReturnsValue("findClosestMatch", findClosestMatch(input.movies, input.searchTerm))

CallFindClosestMatchJs ==
    ReturnsValue("findClosestMatchJs", findClosestMatchJs(input.movies, input.searchTerm))

CallSearchMovies ==
    Returns("searchMovies",
            searchMovies(preprocessCache, input.movies, input.searchTerm, input.maxResults))

NextSearch ==
    \/ CallFindClosestMatch
    \/ CallFindClosestMatchJs
    \/ CallSearchMovies

SearchSpec == InitSearch /\ [][NextSearch]_vars

(***************************************************************************)
(* The recommender: one call on a catalog, a selected movie, an algorithm  *)
(* and a topN.                                                             *)
(***************************************************************************)
\* The movies to select: those of the catalogs, and one that is in no catalog,
\* with a title of a word, a colon, an excluded word and a number, a rating as
\* far from 8 as from 7.5, and a description that toLowerCase lengthens
SelectedMovies == MoviePool \cup {
    [id |-> "n5", title |-> <<"C","a","t",":"," ","v","o","l"," ","1","2","3">>, rating |-> RNorm(31, 4),
     genre |-> <<>>,
     description |-> <<CapitalIDot, CapitalIDot, CapitalIDot, CapitalIDot>>,
     director |-> null] }

InitRecommend ==
    /\ preprocessCache = EmptyCache
    /\ input \in {[movies |-> ms, selectedMovie |-> sel, algorithm |-> alg, topN |-> n] :
                     ms \in Catalogs, sel \in SelectedMovies, alg \in Algorithms,
                     n \in -1..MaxTopN}
    /\ call = NoCall
    /\ page = NoPage

CallGetRecommendations ==
    Returns("getRecommendations",
            getRecommendations(preprocessCache, input.movies, input.selectedMovie,
                               input.algorithm, input.topN))

CallGetRecommendationsJs ==
    ReturnsValue("getRecommendationsJs",
                 getRecommendationsJs(input.movies, input.selectedMovie, input.algorithm,
                                      input.topN))

NextRecommend ==
    \/ CallGetRecommendations
    \/ CallGetRecommendationsJs

RecommendSpec == InitRecommend /\ [][NextRecommend]_vars

(***************************************************************************)
(* The score of one movie: one call of calculateMovieSimilarity on a movie, *)
(* a query, an algorithm and a reference movie (or none).  Beside the      *)
(* movies of the catalogs there are two of the same genre, rating and      *)
(* director up to case, one without a description and one whose            *)
(* description toLowerCase lengthens; the queries are the reference texts  *)
(* getRecommendations builds.                                              *)
(***************************************************************************)
ScoredMovies == MoviePool \cup {
    [id |-> "n3", title |-> <<"c","u","t">>, rating |-> RInt(8),
     genre |-> << <<"W","a","r">> >>,
     description |-> <<>>,
     director |-> <<"C","a","t">>],
    [id |-> "n4", title |-> <<"c","u","t">>, rating |-> RInt(8),
     genre |-> << <<"w","a","r">> >>,
     description |-> <<CapitalIDot, CapitalIDot, CapitalIDot, CapitalIDot>>,
     director |-> <<"c","a","t">>] }

ReferenceText(selectedMovie) ==
    Spaced(selectedMovie.description, joinSpace(selectedMovie.genre))

InitScore ==
    /\ preprocessCache = EmptyCache
    /\ input \in {[movie |-> m, query |-> ReferenceText(sel), algorithm |-> alg,
                   referenceMovie |-> ref] :
                     m \in ScoredMovies, sel \in ScoredMovies, alg \in Algorithms,
                     ref \in ScoredMovies \cup {NoMovie}}
    /\ call = NoCall
    /\ page = NoPage

CallCalculateMovieSimilarity ==
    Returns("calculateMovieSimilarity",
            calculateMovieSimilarity(preprocessCache, input.movie, input.query,
                                     input.algorithm, input.referenceMovie))

CallCalculateMovieSimilarityJs ==
    ReturnsValue("calculateMovieSimilarityJs",
                 calculateMovieSimilarityJs(input.movie, input.query, input.algorithm,
                                            input.referenceMovie))

NextScore ==
    \/ CallCalculateMovieSimilarity
    \/ CallCalculateMovieSimilarityJs

ScoreSpec == InitScore /\ [][NextScore]_vars

(***************************************************************************)
(* The engine: one call of any of the functions that take movies, on the   *)
(* arguments of the function.                                              *)
(***************************************************************************)
InitEngine == InitSearch \/ InitRecommend \/ InitScore

SearchCall == "searchTerm" \in DOMAIN input /\ NextSearch

RecommendCall == "selectedMovie" \in DOMAIN input /\ NextRecommend

ScoreCall == "referenceMovie" \in DOMAIN input /\ NextScore

NextEngine ==
    \/ SearchCall
    \/ RecommendCall
    \/ ScoreCall

EngineSpec == InitEngine /\ [][NextEngine]_vars

(***************************************************************************)
(* The attribute comparators: one call on two genre lists or on two        *)
(* directors, each of which may be null, missing or empty.                 *)
(***************************************************************************)
GenreLists == {
    <<null>>,
    <<undefined>>,
    <<>>,
    << <<"W","a","r">> >>,
    << <<"w","a","r">>, <<"S","p","y">> >>,
    << <<"W","A","R">>, <<"W","a","r">> >> }

Directors == {
    null,
    undefined,
    <<>>,
    <<"C","a","t">>,
    <<"c","a","t">>,
    <<"c","u","t">> }

InitAttribute ==
    /\ preprocessCache = EmptyCache
    /\ input \in {[genres1 |-> g1, genres2 |-> g2, director1 |-> d1, director2 |-> d2] :
                     g1 \in GenreLists, g2 \in GenreLists,
                     d1 \in Directors, d2 \in Directors}
    /\ call = NoCall
    /\ page = NoPage

CallGenreSimilarity ==
    ReturnsValue("genreSimilarity", genreSimilarity(input.genres1, input.genres2))

CallDirectorSimilarity ==
    ReturnsValue("directorSimilarity",
                 directorSimilarity(input.director1, input.director2))

NextAttribute ==
    \/ CallGenreSimilarity
    \/ CallDirectorSimilarity

AttributeSpec == InitAttribute /\ [][NextAttribute]_vars

(***************************************************************************)
(* The cache over a process lifetime: any number of calls of the functions *)
(* that go through the normaliser, on a few texts, in any order.  The      *)
(* process has made input.earlier calls of preprocessText before, each on  *)
(* another string of three digits (which has no token): none, one less     *)
(* than the cache holds, or as many as it holds.                           *)
(***************************************************************************)
DigitUnits == <<"0","1","2","3","4","5","6","7","8","9">>

\* The three digits of k < 1000
DigitText(k) ==
    <<DigitUnits[(k \div 100) + 1], DigitUnits[((k \div 10) % 10) + 1],
      DigitUnits[(k % 10) + 1]>>

\* The cache after preprocessText was called on the first n digit strings
CacheAfter(n) == [text \in {DigitText(k) : k \in 0..(n - 1)} |-> <<>>]

CacheTexts == {
    <<"c","a","t">>,
    <<"T","h","e"," ","c","u","t">>,
    <<"c","u","t"," ","c","a","t">>,
    DigitText(0) }

InitCache ==
    /\ input \in {[earlier |-> n] : n \in {0, CacheLimit - 1, CacheLimit}}
    /\ preprocessCache = CacheAfter(input.earlier)
    /\ call = NoCall
    /\ page = NoPage

\* One more call that goes through the normaliser: r is [ret, cache]
ReturnsAgain(fn, args, r) ==
    /\ call' = [fn |-> fn, ret |-> r.ret] @@ args
    /\ preprocessCache' = r.cache
    /\ UNCHANGED <<input, page>>

AgainPreprocessText ==
    \E text \in CacheTexts :
        ReturnsAgain("preprocessText",
                     [text |-> text, hit |-> text \in DOMAIN preprocessCache],
                     preprocessText(preprocessCache, text))

AgainJaccardSimilarity ==
    \E str1, str2 \in CacheTexts :
        ReturnsAgain("jaccardSimilarity", [str1 |-> str1, str2 |-> str2],
                     jaccardSimilarity(preprocessCache, str1, str2))

AgainCosineSimilarity ==
    \E str1, str2 \in CacheTexts :
        ReturnsAgain("cosineSimilarity", [str1 |-> str1, str2 |-> str2],
                     cosineSimilarity(preprocessCache, str1, str2))

AgainCombinedSimilarity ==
    \E str1, str2 \in CacheTexts :
        ReturnsAgain("combinedSimilarity", [str1 |-> str1, str2 |-> str2],
                     combinedSimilarity(preprocessCache, str1, str2))

NextCache ==
    \/ AgainPreprocessText
    \/ AgainJaccardSimilarity
    \/ AgainCosineSimilarity
    \/ AgainCombinedSimilarity

CacheSpec == InitCache /\ [][NextCache]_vars

(***************************************************************************)
(* The page: the script of part_000 from line 428 on, after the page has   *)
(* loaded.  The user searches for a title that they type, or clicks a      *)
(* recommendation card; the requests that fetchFromOMDb and searchOMDb     *)
(* send are answered one at a time, in any order, or fail.  A movie object *)
(* is an entry of moviesData or an object that fetchFromOMDb has made      *)
(* (page.fetched holds these in the order they were made); a reference to  *)
(* one names its place.  A year is the text the template literal makes of  *)
(* it, empty for a year that is falsy.  No entry of movieCache gets older  *)
(* than CONFIG.CACHE_DURATION, one hour.                                   *)
(***************************************************************************)
MaxPending == 2

MaxFetched == 2

\* The text of a natural number
RECURSIVE NatText(_)
NatText(n) ==
    IF n < 10 THEN <<DigitUnits[n + 1]>>
    ELSE NatText(n \div 10) \o <<DigitUnits[(n % 10) + 1]>>

NaN == <<"NaN">>

\* `${year}`, and no text for a year that is falsy
YearText(year) ==
    IF IsFalsy(year) \/ year = NaN \/ year = RInt(0) THEN <<>> ELSE NatText(year[1])

\* The digits that a text starts with
RECURSIVE LeadingDigits(_)
LeadingDigits(text) ==
    IF text = <<>> \/ Head(text) \notin Digits THEN <<>>
    ELSE <<Head(text)>> \o LeadingDigits(Tail(text))

\* The number that digits write, after the number n of the digits before them
RECURSIVE DigitsValue(_, _)
DigitsValue(digits, n) ==
    IF digits = <<>> THEN n
    ELSE DigitsValue(Tail(digits),
                     10 * n + (CHOOSE d \in 0..9 : DigitUnits[d + 1] = Head(digits)))

\* parseInt(text), of a text without a sign
parseInt(text) ==
    LET digits == LeadingDigits(trimStart(text))
    IN  IF digits = <<>> THEN NaN ELSE RInt(DigitsValue(digits, 0))

RECURSIVE PowerOfTen(_)
PowerOfTen(k) == IF k = 0 THEN 1 ELSE 10 * PowerOfTen(k - 1)

\* parseFloat(text), of a text without a sign and without an exponent
parseFloat(text) ==
    LET start == trimStart(text)
        whole == LeadingDigits(start)
        rest == SubSeq(start, Len(whole) + 1, Len(start))
        fraction == IF rest # <<>> /\ Head(rest) = "." THEN LeadingDigits(Tail(rest))
                    ELSE <<>>
    IN  IF whole = <<>> /\ fraction = <<>> THEN NaN
        ELSE RAdd(RInt(DigitsValue(whole, 0)),
                  RNorm(DigitsValue(fraction, 0), PowerOfTen(Len(fraction))))

\* String.prototype.split(separator), the separator not empty
RECURSIVE splitOn(_, _)
splitOn(text, separator) ==
    LET at == {i \in 1..(Len(text) - Len(separator) + 1) :
                  SubSeq(text, i, i + Len(separator) - 1) = separator}
    IN  IF at = {} THEN <<text>>
        ELSE TheOne({ <<SubSeq(text, 1, i - 1)>>
                          \o splitOn(SubSeq(text, i + Len(separator), Len(text)), separator)
                       :  i \in {CHOOSE first \in at : \A other \in at : first <= other} })

\* The movies that OMDb knows, as the JSON it answers with; the third has no
\* plot and no poster.  An imdbID is a string: the id "stt1" is the string "tt1".
OmdbMovies == <<
    [Response |-> "True", imdbID |-> "stt1", Title |-> <<"C","a","t">>,
     Year |-> <<"1","9","9","9">>, imdbRating |-> <<"8",".","5">>,
     Genre |-> <<"W","a","r",","," ","S","p","y">>, Plot |-> <<"c","a">>,
     Poster |-> <<"/","c","a","t">>, Director |-> <<"C","a","t">>],
    [Response |-> "True", imdbID |-> "stt2", Title |-> <<"C","u","t">>,
     Year |-> <<"2","0","0","1">>, imdbRating |-> <<"N","/","A">>,
     Genre |-> <<"S","p","y">>, Plot |-> <<"c","u">>,
     Poster |-> <<"/","c","u","t">>, Director |-> <<"N","/","A">>],
    [Response |-> "True", imdbID |-> "stt3", Title |-> <<"D","o","g">>,
     Year |-> <<"2","0","0","5">>, imdbRating |-> <<"7">>,
     Genre |-> <<>>, Plot |-> <<>>,
     Poster |-> <<"N","/","A">>, Director |-> <<"C","a","t">>] >>

\* What api/movie.js answers to a title and a year: the movie of OMDb with the
\* title, compared without case, and the year when one is asked for
OmdbMovie(title, year) ==
    LET found == {k \in 1..Len(OmdbMovies) :
                     /\ toLowerCase(OmdbMovies[k].Title) = toLowerCase(title)
                     /\ year # <<>> => OmdbMovies[k].Year = year}
    IN  IF found = {} THEN [Response |-> "False"]
        ELSE OmdbMovies[CHOOSE k \in found : \A other \in found : k <= other]

\* What api/search.js answers to a query: the movies of OMDb whose title
\* holds the query, compared without case
OmdbSearch(query) ==
    LET Holds(movie) == includes(toLowerCase(movie.Title), toLowerCase(query))
        found == SelectSeq(OmdbMovies, Holds)
    IN  IF found = <<>> THEN [Response |-> "False"]
        ELSE [Response |-> "True", Search |-> found]

\* data/movies.json
LocalMovies == <<
    [id |-> "n1", title |-> <<"C","a","t">>, year |-> RInt(1999), rating |-> RInt(8),
     genre |-> << <<"W","a","r">> >>, description |-> <<"c","a">>,
     director |-> <<"C","a","t">>, poster |-> null],
    [id |-> "n2", title |-> <<"C","u","t">>, year |-> RInt(2001), rating |-> RInt(7),
     genre |-> << <<"S","p","y">> >>, description |-> <<"c","u">>,
     director |-> null, poster |-> null] >>

\* What the user types into movieInput
TypedTitles == { <<"c","u","t"," ">>, <<" ">> }

\* The text of an id, as a template literal writes it into data-movie-id
IdText(id) ==
    CASE id = "n1" -> <<"1">>
      [] id = "n2" -> <<"2">>
      [] id = "stt1" -> <<"t","t","1">>
      [] id = "stt2" -> <<"t","t","2">>
      [] id = "stt3" -> <<"t","t","3">>

EmptyDiv == [img |-> FALSE, title |-> <<>>, src |-> <<>>]

\* The page after DOMContentLoaded: loadMovieData and checkApiConfiguration
\* have returned; a catalog that could not be loaded leaves moviesData empty
LoadedPage(moviesJson, apiHealthy) ==
    [useOmdbApi |-> apiHealthy,
     moviesData |-> moviesJson,
     selectedMovie |-> NoMovie,
     movieCache |-> <<>>,
     fetched |-> <<>>,
     pending |-> <<>>,
     movieInput |-> <<>>,
     selectedMovieDiv |-> EmptyDiv,
     movieListDiv |-> <<>>,
     recommendationsSection |-> FALSE,
     errorMessage |-> [display |-> moviesJson = <<>>,
                       textContent |-> IF moviesJson = <<>>
                                       THEN "Failed to load movie database."
                                       ELSE ""],
     loadingSpinner |-> FALSE]

LocalMovie(k) == [heap |-> "moviesData", at |-> k]

FetchedMovie(i) == [heap |-> "fetched", at |-> i]

\* The movie object that a reference names
Deref(s, movie) ==
    IF movie.heap = "moviesData" THEN s.moviesData[movie.at] ELSE s.fetched[movie.at]

\* movie.poster = poster
SetPoster(s, movie, poster) ==
    IF movie.heap = "moviesData"
    THEN [s EXCEPT !.moviesData[movie.at].poster = poster]
    ELSE [s EXCEPT !.fetched[movie.at].poster = poster]

showLoading(s, show) == [s EXCEPT !.loadingSpinner = show]

showError(s, message) == [s EXCEPT !.errorMessage = [display |-> TRUE, textContent |-> message]]

hideError(s) == [s EXCEPT !.errorMessage.display = FALSE]

\* generatePosterDataUrl(title, year, width, height): an image drawn of the
\* title and the year
generatePosterDataUrl(title, year) == <<"d","a","t","a",":">> \o title \o YearText(year)

\* A call of fetchFromOMDb or of fetch that a function awaits
Task(fn, awaits, title, year, term, movie, card) ==
    [fn |-> fn, awaits |-> awaits, title |-> title, year |-> year, term |-> term,
     movie |-> movie, card |-> card, attached |-> card # 0, details |-> <<>>]

\* The key of fetchFromOMDb in movieCache
CacheKey(title, year) == IF year = <<>> THEN title ELSE title \o <<"-">> \o year

\* The places of the entries of movieCache with a key
CachedAt(s, cacheKey) == {i \in 1..Len(s.movieCache) : s.movieCache[i].key = cacheKey}

\* fetchFromOMDb(title, year) up to its await: the cached movie is ready for
\* the function that awaits it, or a request is on its way
fetchFromOMDb(s, task) ==
    LET cached == CachedAt(s, CacheKey(task.title, task.year))
    IN  IF cached # {}
        THEN [s EXCEPT !.ready = Append(@, [task |-> task,
                       movie |-> FetchedMovie(s.movieCache[TheOne(cached)].data)])]
        ELSE [s EXCEPT !.pending = Append(@, task)]

\* The movie that fetchFromOMDb makes of the JSON of OMDb
TransformedMovie(data) ==
    [id |-> data.imdbID,
     title |-> data.Title,
     year |-> parseInt(data.Year),
     rating |-> TheOne({ IF number = NaN \/ number = RInt(0) THEN RInt(0) ELSE number
                          :  number \in {parseFloat(data.imdbRating)} }),
     genre |-> IF data.Genre # <<>> THEN splitOn(data.Genre, <<",", " ">>) ELSE <<>>,
     description |-> IF data.Plot # <<>> THEN data.Plot
                     ELSE <<"N","o"," ","d","e","s","c","r","i","p","t","i","o","n"," ",
                            "a","v","a","i","l","a","b","l","e",".">>,
     poster |-> IF data.Poster # <<"N","/","A">> THEN data.Poster ELSE null,
     director |-> data.Director]

IsFound(data) == "Response" \in DOMAIN data /\ data.Response = "True"

\* movieCache.set(cacheKey, {data: the movie at a place of page.fetched})
CacheSet(movieCache, cacheKey, at) ==
    IF \E i \in 1..Len(movieCache) : movieCache[i].key = cacheKey
    THEN [i \in 1..Len(movieCache) |->
             IF movieCache[i].key = cacheKey THEN [key |-> cacheKey, data |-> at]
             ELSE movieCache[i]]
    ELSE Append(movieCache, [key |-> cacheKey, data |-> at])

\* fetchFromOMDb(title, year) from its await on: data is the JSON of the
\* response, or what a request that fails leaves; the result is the page and
\* the movie returned
fetchFromOMDb_Response(s, title, year, data) ==
    IF IsFound(data)
    THEN [page |-> [s EXCEPT !.fetched = Append(@, TransformedMovie(data)),
                             !.movieCache = CacheSet(@, CacheKey(title, year),
                                                     Len(s.fetched) + 1)],
          movie |-> FetchedMovie(Len(s.fetched) + 1)]
    ELSE [page |-> s, movie |-> NoMovie]

\* The then of displaySelectedMovie: the poster of the movie fetched goes to
\* the image of selectedMovieDiv, when there is one, and to selectedMovie
displaySelectedMovie_Fetched(s, fetched) ==
    IF fetched # NoMovie /\ ~IsFalsy(Deref(s, fetched).poster)
    THEN TheOne({ IF withImage.selectedMovie = NoMovie THEN withImage
                  ELSE SetPoster(withImage, withImage.selectedMovie, poster)
                   :  poster \in {Deref(s, fetched).poster},
                      withImage \in {IF s.selectedMovieDiv.img
                                     THEN [s EXCEPT !.selectedMovieDiv.src =
                                                        Deref(s, fetched).poster]
                                     ELSE s} })
    ELSE s

\* The callback of a card in displayRecommendations, from its await on: the
\* poster goes to the card, which may be in the page no more, and to the movie
displayRecommendations_Fetched(s, task, fetched) ==
    IF fetched # NoMovie /\ ~IsFalsy(Deref(s, fetched).poster)
    THEN TheOne({ SetPoster(IF task.attached
                            THEN [s EXCEPT !.movieListDiv[task.card].src = poster,
                                           !.movieListDiv[task.card].dataPoster = poster]
                            ELSE s,
                            LocalMovie(task.movie), poster)
                   :  poster \in {Deref(s, fetched).poster} })
    ELSE s

\* displaySelectedMovie(movie) up to the then
displaySelectedMovie(s, movie) ==
    TheOne({ IF s.useOmdbApi
             THEN fetchFromOMDb(shown, Task("displaySelectedMovie", "fetchFromOMDb",
                                            object.title, YearText(object.year),
                                            <<>>, 0, 0))
             ELSE shown
              :  object \in {Deref(s, movie)},
                 shown \in {[s EXCEPT !.selectedMovieDiv =
                     [img |-> TRUE,
                      title |-> Deref(s, movie).title,
                      src |-> IF ~s.useOmdbApi /\ ~IsFalsy(Deref(s, movie).poster)
                              THEN Deref(s, movie).poster
                              ELSE generatePosterDataUrl(Deref(s, movie).title,
                                                         Deref(s, movie).year)]]} })

\* movieListDiv.innerHTML = ...: the cards of before are in the page no more
SetMovieList(s, cards) ==
    [s EXCEPT !.movieListDiv = cards,
              !.pending = [i \in 1..Len(s.pending) |-> [s.pending[i] EXCEPT !.attached = FALSE]],
              !.ready = [i \in 1..Len(s.ready) |->
                            [s.ready[i] EXCEPT !.task.attached = FALSE]]]

\* The card of a recommendation
MovieCard(s, movie) ==
    LET posterSrc == IF ~s.useOmdbApi /\ ~IsFalsy(movie.poster) THEN movie.poster
                     ELSE generatePosterDataUrl(movie.title, movie.year)
    IN  [movieId |-> IdText(movie.id),
         dataPoster |-> IF ~IsFalsy(movie.poster) THEN posterSrc ELSE <<>>,
         src |-> posterSrc]

\* moviesData.find(m => m.id === movieId || m.id == movieId): the place of the
\* movie found, or 0
FindById(s, movieId) ==
    LET found == {k \in 1..Len(s.moviesData) : IdText(s.moviesData[k].id) = movieId}
    IN  IF found = {} THEN 0 ELSE CHOOSE k \in found : \A other \in found : k <= other

\* The forEach over the cards of displayRecommendations, from card k on, each
\* callback up to its await
RECURSIVE FetchCardPosters(_, _)
FetchCardPosters(s, k) ==
    IF k > Len(s.movieListDiv) THEN s
    ELSE TheOne({ FetchCardPosters(next, k + 1)
                   :  next \in {TheOne({
                          IF at = 0 THEN s
                          ELSE fetchFromOMDb(s, Task("displayRecommendations", "fetchFromOMDb",
                                                     s.moviesData[at].title,
                                                     YearText(s.moviesData[at].year),
                                                     <<>>, at, k))
                           :  at \in {FindById(s, s.movieListDiv[k].movieId)} })} })

\* displayRecommendations(), with the recommendations that getRecommendations
\* has returned
displayRecommendations_Show(s, recommendations) ==
    IF recommendations = <<>> THEN SetMovieList(s, <<>>)
    ELSE TheOne({ IF s.useOmdbApi THEN FetchCardPosters(shown, 1) ELSE shown
                   :  shown \in {[SetMovieList(s,
                                      [k \in 1..Len(recommendations) |->
                                          MovieCard(s, recommendations[k])])
                                  EXCEPT !.recommendationsSection = TRUE]} })

\* displayRecommendations()
displayRecommendations(s) ==
    IF s.selectedMovie = NoMovie THEN s
    ELSE IF /\ s.useOmdbApi
            /\ s.moviesData = <<>>
            /\ Deref(s, s.selectedMovie).genre # <<>>
    THEN [SetMovieList(s, <<>>) EXCEPT !.recommendationsSection = TRUE]
    ELSE TheOne({ displayRecommendations_Show(
                      [s EXCEPT !.preprocessCache = recommendations.cache],
                      recommendations.ret)
                   :  recommendations \in
                          {getRecommendations(s.preprocessCache, s.moviesData,
                                              Deref(s, s.selectedMovie), "combined", 6)} })

\* selectedMovie = movie; displaySelectedMovie(movie); displayRecommendations()
Select(s, movie) ==
    TheOne({ displayRecommendations(displayed)
              :  displayed \in {displaySelectedMovie([s EXCEPT !.selectedMovie = movie],
                                                     movie)} })

\* handleSearch(), from the movie that OMDb gave or did not give
handleSearch_Found(s, searchTerm, fromOmdb) ==
    TheOne({ showLoading(IF movie # NoMovie THEN Select(s, movie)
                         ELSE [SetMovieList(showError(s, "No match found"), <<>>)
                               EXCEPT !.selectedMovieDiv = EmptyDiv],
                         FALSE)
              :  movie \in {IF fromOmdb = NoMovie /\ s.moviesData # <<>>
                            THEN TheOne({ IF /\ closest.movie # NoMovie
                                             /\ NLess(NRat(RNorm(3, 10)), closest.similarity)
                                          THEN LocalMovie(CHOOSE k \in 1..Len(s.moviesData) :
                                                              s.moviesData[k] = closest.movie)
                                          ELSE NoMovie
                                           :  closest \in {findClosestMatch(s.moviesData,
                                                                            searchTerm)} })
                            ELSE fromOmdb} })

\* searchOMDb(query) up to its first await: the request of the search
searchOMDb(s, query) ==
    [s EXCEPT !.pending = Append(@, Task("searchOMDb", "fetch", <<>>, <<>>, query, 0, 0))]

\* handleSearch() from its first await on
handleSearch_Fetched(s, task, movie) ==
    IF movie = NoMovie THEN searchOMDb(s, task.term)
    ELSE handleSearch_Found(s, task.term, movie)

IsMovie(movie) == movie # NoMovie

\* handleSearch() from the await of searchOMDb on: the first of the movies
\* that are not null
handleSearch_Searched(s, searchTerm, movies) ==
    LET searchResults == SelectSeq(movies, IsMovie)
    IN  handleSearch_Found(s, searchTerm,
                           IF searchResults # <<>> THEN searchResults[1] ELSE NoMovie)

\* The fetchFromOMDb of one movie of a search, up to its await
DetailOf(s, hit) ==
    LET cached == CachedAt(s, CacheKey(hit.Title, hit.Year))
    IN  [title |-> hit.Title, year |-> hit.Year, done |-> cached # {},
         movie |-> IF cached # {} THEN FetchedMovie(s.movieCache[TheOne(cached)].data)
                   ELSE NoMovie]

\* Promise.all(detailPromises): searchOMDb returns when every movie is there
searchOMDb_Details(s, query, details) ==
    IF \A j \in 1..Len(details) : details[j].done
    THEN handleSearch_Searched(s, query, [j \in 1..Len(details) |-> details[j].movie])
    ELSE [s EXCEPT !.pending =
             Append(@, [Task("searchOMDb", "Promise.all", <<>>, <<>>, query, 0, 0)
                        EXCEPT !.details = details])]

\* searchOMDb(query) from its first await on: data is the JSON of the response
searchOMDb_Response(s, query, data) ==
    IF IsFound(data) /\ "Search" \in DOMAIN data
    THEN TheOne({ searchOMDb_Details(s, query, [j \in 1..Len(hits) |-> DetailOf(s, hits[j])])
                   :  hits \in {sliceTo(data.Search, 10)} })
    ELSE handleSearch_Searched(s, query, <<>>)

\* handleSearch() up to its first await
handleSearch(s) ==
    TheOne({ IF searchTerm = <<>> THEN showError(s, "Please enter a movie title")
             ELSE IF s.useOmdbApi
             THEN fetchFromOMDb(showLoading(hideError(s), TRUE),
                                Task("handleSearch", "fetchFromOMDb", searchTerm, <<>>,
                                     searchTerm, 0, 0))
             ELSE handleSearch_Found(showLoading(hideError(s), TRUE), searchTerm, NoMovie)
              :  searchTerm \in {trim(s.movieInput)} })

\* An id that is a string (an imdbID), not a number
IsStringId(id) == id \in {"stt1", "stt2", "stt3"}

\* The first movie of movieCache, in the order of the Map, with
\* value.data.id === movieId
FindCached(s, movieId) ==
    LET found == {i \in 1..Len(s.movieCache) :
                     /\ IsStringId(s.fetched[s.movieCache[i].data].id)
                     /\ IdText(s.fetched[s.movieCache[i].data].id) = movieId}
    IN  IF found = {} THEN NoMovie
        ELSE FetchedMovie(s.movieCache[CHOOSE i \in found : \A other \in found : i <= other].data)

\* selectMovieById(movieId): movieId is the text of data-movie-id
selectMovieById(s, movieId) ==
    TheOne({ showLoading(IF movie # NoMovie
                         THEN Select([loading EXCEPT !.movieInput = Deref(s, movie).title],
                                     movie)
                         ELSE loading,
                         FALSE)
              :  loading \in {showLoading(s, TRUE)},
                 movie \in {IF FindById(s, movieId) # 0 THEN LocalMovie(FindById(s, movieId))
                            ELSE IF s.useOmdbApi THEN FindCached(s, movieId)
                            ELSE NoMovie} })

\* What a function does when the fetchFromOMDb that it awaits has returned
Resume(s, task, movie) ==
    CASE task.fn = "displaySelectedMovie" -> displaySelectedMovie_Fetched(s, movie)
      [] task.fn = "displayRecommendations" -> displayRecommendations_Fetched(s, task, movie)
      [] task.fn = "handleSearch" -> handleSearch_Fetched(s, task, movie)

\* The job queue: the functions whose promise is resolved go on, in the order
\* in which the promises were resolved, until none is left
RECURSIVE Settle(_)
Settle(s) ==
    IF s.ready = <<>> THEN s
    ELSE TheOne({ Settle(next)
                   :  next \in {Resume([s EXCEPT !.ready = Tail(@)],
                                       Head(s.ready).task, Head(s.ready).movie)} })

\* What a request that fails leaves in place of the JSON of a response
Thrown == [thrown |-> TRUE]

\* The page as the functions see it: with preprocessCache, and with the
\* functions whose promise is resolved
Running == [preprocessCache |-> preprocessCache, ready |-> <<>>] @@ page

\* The page less the pending call at a place
Without(s, i) ==
    [s EXCEPT !.pending = SubSeq(@, 1, i - 1) \o SubSeq(@, i + 1, Len(@))]

\* An event handler or a callback has run to s: the jobs that it has made
\* ready run, and the page is what they leave
Runs(s) ==
    \E after \in {TheOne({ Settle(done) : done \in {s} })} :
        /\ Len(after.pending) <= MaxPending
        /\ Len(after.fetched) <= MaxFetched
        /\ page' = [field \in DOMAIN page |-> after[field]]
        /\ preprocessCache' = after.preprocessCache
        /\ UNCHANGED <<input, call>>

InitPage ==
    /\ preprocessCache = EmptyCache
    /\ input \in {[moviesJson |-> movies, apiHealthy |-> healthy] :
                     movies \in {<<>>, SubSeq(LocalMovies, 1, 1), LocalMovies}, healthy \in BOOLEAN}
    /\ call = NoCall
    /\ page = LoadedPage(input.moviesJson, input.apiHealthy)

\* The user types a title into movieInput and clicks searchBtn, or presses
\* Enter
ClickSearch ==
    \E title \in TypedTitles :
        Runs(handleSearch([Running EXCEPT !.movieInput = title]))

\* The user clicks a card of movieListDiv
ClickCard ==
    \E k \in 1..Len(page.movieListDiv) :
        Runs(selectMovieById(Running, page.movieListDiv[k].movieId))

\* The request of a fetchFromOMDb is answered, or fails
MovieResponds ==
    \E i \in 1..Len(page.pending), ok \in BOOLEAN :
        /\ page.pending[i].awaits = "fetchFromOMDb"
        /\ \E task \in {page.pending[i]} :
               \E returned \in {fetchFromOMDb_Response(
                                    Without(Running, i), task.title, task.year,
                                    IF ok THEN OmdbMovie(task.title, task.year) ELSE Thrown)} :
                   Runs([returned.page EXCEPT !.ready =
                            <<[task |-> task, movie |-> returned.movie]>>])

\* The request of searchOMDb is answered, or fails
SearchResponds ==
    \E i \in 1..Len(page.pending), ok \in BOOLEAN :
        /\ page.pending[i].awaits = "fetch"
        /\ Runs(searchOMDb_Response(Without(Running, i), page.pending[i].term,
                                    IF ok THEN OmdbSearch(page.pending[i].term) ELSE Thrown))

\* The request of a fetchFromOMDb for a movie of a search is answered, or fails
DetailResponds ==
    \E i \in 1..Len(page.pending), ok \in BOOLEAN :
        /\ page.pending[i].awaits = "Promise.all"
        /\ \E task \in {page.pending[i]} :
               \E j \in 1..Len(task.details) :
                   /\ ~task.details[j].done
                   /\ \E returned \in {fetchFromOMDb_Response(
                                            Without(Running, i), task.details[j].title,
                                            task.details[j].year,
                                            IF ok THEN OmdbMovie(task.details[j].title,
                                                                 task.details[j].year)
                                            ELSE Thrown)} :
                          Runs(searchOMDb_Details(
                                   returned.page, task.term,
                                   [task.details EXCEPT ![j] =
                                       [@ EXCEPT !.done = TRUE, !.movie = returned.movie]]))

NextPage ==
    \/ ClickSearch
    \/ ClickCard
    \/ MovieResponds
    \/ SearchResponds
    \/ DetailResponds

PageSpec == InitPage /\ [][NextPage]_vars

(***************************************************************************)
(* The claims about the text primitives, under TextSpec.                   *)
(***************************************************************************)
Tokens(text) == preprocessText(EmptyCache, text).ret

LowerLen(text) == Len(toLowerCase(text))

ShortCircuits(a, b) == 2 * Abs(LowerLen(a) - LowerLen(b)) > Max(LowerLen(a), LowerLen(b))

\* C5: jaccardSimilarity, cosineSimilarity and levenshteinSimilarity each return a
\* value in the closed interval [0,1] for all texts; levenshteinSimilarity is never
\* negative.
C5_SimilaritiesInUnitInterval ==
    call.fn \in {"jaccardSimilarity", "cosineSimilarity", "levenshteinSimilarity"}
        => InUnitInterval(call.ret)

\* C6: each text primitive is symmetric in its two arguments: the value returned
\* for (str1, str2) is the value the function gives for (str2, str1).
C6_Symmetric ==
    /\ call.fn = "jaccardSimilarity"
        => call.ret = jaccardSimilarity(EmptyCache, input.str2, input.str1).ret
    /\ call.fn = "cosineSimilarity"
        => call.ret = cosineSimilarity(EmptyCache, input.str2, input.str1).ret
    /\ call.fn = "levenshteinSimilarity"
        => call.ret = levenshteinSimilarity(input.str2, input.str1)

\* levenshteinSimilarity has returned for two strings of different lengths that
\* take the length-difference short-circuit.
C6_Witness ==
    /\ call.fn = "levenshteinSimilarity"
    /\ Len(input.str1) < Len(input.str2)
    /\ input.str1 # <<>>
    /\ ShortCircuits(input.str1, input.str2)

\* C7: jaccardSimilarity(a, a) = 1 for every text a that normalises to at least
\* one token, and levenshteinSimilarity(a, a) = 1 for every string a.
C7_SelfSimilarityIsOne ==
    input.str1 = input.str2 =>
        /\ (call.fn = "jaccardSimilarity" /\ Tokens(input.str1) # <<>>) => call.ret = NOne
        /\ call.fn = "levenshteinSimilarity" => call.ret = NOne

\* jaccardSimilarity has returned for a text of two distinct tokens and itself.
C7_Witness ==
    /\ call.fn = "jaccardSimilarity"
    /\ input.str1 = input.str2
    /\ Cardinality(Range(Tokens(input.str1))) = 2

\* C8: jaccardSimilarity and cosineSimilarity return 0 whenever either text yields
\* no tokens, in particular for two empty strings, and levenshteinSimilarity of two
\* empty strings is 1, in part_000 and in algorithms.js alike.
C8_DegenerateFallbacks ==
    /\ (/\ call.fn \in {"jaccardSimilarity", "cosineSimilarity"}
        /\ (Tokens(input.str1) = <<>> \/ Tokens(input.str2) = <<>>))
        => call.ret = NZero
    /\ (/\ call.fn \in {"jaccardSimilarityJs", "cosineSimilarityJs"}
        /\ input.str1 = <<>> /\ input.str2 = <<>>)
        => call.ret = NZero
    /\ (/\ call.fn \in {"levenshteinSimilarity", "levenshteinSimilarityJs"}
        /\ input.str1 = <<>> /\ input.str2 = <<>>)
        => call.ret = NOne

\* C9 as stated, with len(a) the length of the string a: levenshteinDistance
\* returns max(len(a), len(b)) when |len(a) - len(b)| > max(len(a), len(b)) / 2 and
\* the value of the full-matrix dynamic program otherwise.
C9_Original ==
    call.fn = "levenshteinDistance" =>
        LET lenA == Len(input.str1)
            lenB == Len(input.str2)
        IN  IF 2 * Abs(lenA - lenB) > Max(lenA, lenB)
            THEN call.ret = Max(lenA, lenB)
            ELSE call.ret = levenshteinDistanceJs(input.str1, input.str2)

\* C9 (amended): with len the length of the lowercased string, levenshteinDistance
\* returns max(len(a), len(b)) when |len(a) - len(b)| > max(len(a), len(b)) / 2 and
\* otherwise exactly the value of the full-matrix dynamic program of algorithms.js;
\* levenshteinDistance("cat", "cut") = 1.
C9_TwoRowsAgreeWithMatrix ==
    call.fn = "levenshteinDistance" =>
        LET lenA == LowerLen(input.str1)
            lenB == LowerLen(input.str2)
        IN  /\ IF 2 * Abs(lenA - lenB) > Max(lenA, lenB)
               THEN call.ret = Max(lenA, lenB)
               ELSE call.ret = levenshteinDistanceJs(input.str1, input.str2)
            /\ (input.str1 = <<"c","a","t">> /\ input.str2 = <<"c","u","t">>)
                => call.ret = 1

\* levenshteinDistance has run its two rows on strings of different lengths that
\* differ in more than one place.
C9_Witness ==
    /\ call.fn = "levenshteinDistance"
    /\ LowerLen(input.str1) # LowerLen(input.str2)
    /\ ~ShortCircuits(input.str1, input.str2)
    /\ call.ret > 1

\* C10: combinedSimilarity(a, b) = 0.6 * cosineSimilarity(a, b) +
\* 0.3 * jaccardSimilarity(a, b) + 0.1 * levenshteinSimilarity(a, b), the three
\* weights sum to 1, and the result lies in [0,1].
C10_CombinedWeightsAndRange ==
    call.fn = "combinedSimilarity" =>
        /\ call.ret =
              NAdd(NAdd(NScale(<<3, 5>>,
                               cosineSimilarity(EmptyCache, input.str1, input.str2).ret),
                        NScale(<<3, 10>>,
                               jaccardSimilarity(EmptyCache, input.str1, input.str2).ret)),
                   NScale(<<1, 10>>, levenshteinSimilarity(input.str1, input.str2)))
        /\ RAdd(RAdd(<<3, 5>>, <<3, 10>>), <<1, 10>>) = <<1, 1>>
        /\ InUnitInterval(call.ret)

\* The combination the README documents: 0.3 x Jaccard + 0.4 x Cosine +
\* 0.3 x Levenshtein
ReadmeCombined(jaccard, cosine, levenshtein) ==
    NAdd(NAdd(NScale(RNorm(3, 10), jaccard), NScale(RNorm(4, 10), cosine)),
         NScale(RNorm(3, 10), levenshtein))

\* C11: combinedSimilarity(a, b) = 0.3 * Jaccard + 0.4 * Cosine +
\* 0.3 * Levenshtein similarity, as the README documents, in part_000 and in
\* algorithms.js, each over its own three primitives.
C11_ReadmeWeights ==
    /\ call.fn = "combinedSimilarity" =>
           call.ret = ReadmeCombined(
                          jaccardSimilarity(EmptyCache, input.str1, input.str2).ret,
                          cosineSimilarity(EmptyCache, input.str1, input.str2).ret,
                          levenshteinSimilarity(input.str1, input.str2))
    /\ call.fn = "combinedSimilarityJs" =>
           call.ret = ReadmeCombined(jaccardSimilarityJs(input.str1, input.str2),
                                     cosineSimilarityJs(input.str1, input.str2),
                                     levenshteinSimilarityJs(input.str1, input.str2))

\* The pieces of the lowercased text that are longer than 2 code units, hold
\* only the letters a-z and are no stopwords, in the order of the text
C13_Kept(text) ==
    SelectSeq(splitWhitespace(toLowerCase(text)),
              LAMBDA piece : /\ Len(piece) > 2
                             /\ \A i \in 1..Len(piece) : piece[i] \in Range(LowerLetters)
                             /\ piece \notin STOPWORDS)

IsBlank(text) == \A i \in 1..Len(text) : text[i] = " "

\* C13: preprocessText(text) returns, in input order, exactly the
\* whitespace-separated pieces of the lowercased text that are longer than 2
\* characters, consist only of letters a-z and are not stopwords; an empty or
\* whitespace-only text yields the empty sequence; and
\* jaccardSimilarity("the great movie", "a great film") = 1/3.
C13_NormalisedTokens ==
    /\ call.fn = "preprocessText" =>
           /\ call.ret = C13_Kept(input.str1)
           /\ IsBlank(input.str1) => call.ret = <<>>
    /\ (call.fn = "jaccardSimilarity" /\ input \in ExampleTexts /\ ~IsBlank(input.str1))
           => call.ret = NRat(RNorm(1, 3))

\* preprocessText has returned two tokens of a text of three words, the first of
\* them a stopword.
C13_Witness ==
    /\ call.fn = "preprocessText"
    /\ Len(splitWhitespace(input.str1)) = 3
    /\ Len(call.ret) = 2
    /\ toLowerCase(splitWhitespace(input.str1)[1]) \in STOPWORDS

(***************************************************************************)
(* The claims about the attribute comparators, under AttributeSpec.        *)
(***************************************************************************)
\* The strings of an array, lowercased
LowerSet(strings) == {toLowerCase(g) : g \in Range(strings)}

\* A genre list that is null, missing or empty
NoGenres(genres) == genres = <<null>> \/ genres = <<undefined>> \/ genres = <<>>

\* A director that is null, missing or empty
NoDirector(director) == director = null \/ director = undefined \/ director = <<>>

\* C16: genreSimilarity returns 0 when either genre list is null, missing or empty
\* and otherwise |intersection| / |union| of the lowercased label sets;
\* directorSimilarity returns 0 when either director is null, missing or empty,
\* and 1 exactly when both are present and equal up to case.
C16_AbsentAttributesScoreZero ==
    /\ call.fn = "genreSimilarity" =>
           IF NoGenres(input.genres1) \/ NoGenres(input.genres2)
           THEN call.ret = NZero
           ELSE call.ret =
                    NRat(RNorm(Cardinality(LowerSet(input.genres1)
                                               \cap LowerSet(input.genres2)),
                               Cardinality(LowerSet(input.genres1)
                                               \cup LowerSet(input.genres2))))
    /\ call.fn = "directorSimilarity" =>
           IF NoDirector(input.director1) \/ NoDirector(input.director2)
           THEN call.ret = NZero
           ELSE IF toLowerCase(input.director1) = toLowerCase(input.director2)
                THEN call.ret = NOne
                ELSE call.ret = NZero

\* genreSimilarity has compared two lists that share one label of two, written in
\* different cases.
C16_Witness ==
    /\ call.fn = "genreSimilarity"
    /\ ~NoGenres(input.genres1)
    /\ ~NoGenres(input.genres2)
    /\ Range(input.genres1) \cap Range(input.genres2) = {}
    /\ call.ret = NRat(RNorm(1, 2))

(***************************************************************************)
(* The claims about the cache, under CacheSpec.                            *)
(***************************************************************************)
\* C14: whatever calls came before, preprocessText(t) returns the tokens that the
\* normalisation of t without a cache returns, be t a hit, a miss, or a miss on a
\* full cache; and the similarity functions return what they return on an empty
\* cache.
C14_CacheIsTransparent ==
    /\ call.fn = "preprocessText" => call.ret = Tokens(call.text)
    /\ call.fn = "jaccardSimilarity"
           => call.ret = jaccardSimilarity(EmptyCache, call.str1, call.str2).ret
    /\ call.fn = "cosineSimilarity"
           => call.ret = cosineSimilarity(EmptyCache, call.str1, call.str2).ret
    /\ call.fn = "combinedSimilarity"
           => call.ret = combinedSimilarity(EmptyCache, call.str1, call.str2).ret

\* preprocessText has returned the tokens of a text from a full cache, where an
\* earlier call stored them as the last entry; another of the texts is not cached.
C14_Witness ==
    /\ call.fn = "preprocessText"
    /\ call.hit
    /\ call.ret # <<>>
    /\ Cardinality(DOMAIN preprocessCache) = CacheLimit
    /\ \E text \in CacheTexts : text \notin DOMAIN preprocessCache

\* C24: after any sequence of calls the cache holds at most 1000 entries; once
\* it holds 1000, a call with a new input leaves the cache unchanged; an entry
\* once stored is never removed or replaced.
C24_CacheBoundedAndStable ==
    [][/\ Cardinality(DOMAIN preprocessCache') <= 1000
       /\ Cardinality(DOMAIN preprocessCache) = 1000 => preprocessCache' = preprocessCache
       /\ \A text \in DOMAIN preprocessCache :
              /\ text \in DOMAIN preprocessCache'
              /\ preprocessCache'[text] = preprocessCache[text]]_vars

\* preprocessText has been called on a text that the cache does not hold; the
\* cache holds 1000 entries, one of them the tokens that an earlier call stored.
C24_Witness ==
    /\ call.fn = "preprocessText"
    /\ ~call.hit
    /\ call.text \notin DOMAIN preprocessCache
    /\ Cardinality(DOMAIN preprocessCache) = 1000
    /\ \E text \in DOMAIN preprocessCache : preprocessCache[text] # <<>>

(***************************************************************************)
(* The claims about the recommender, under RecommendSpec.                  *)
(***************************************************************************)
\* C1: in both implementations the sequence returned by getRecommendations holds
\* no entry whose id equals the selected movie's id, for every catalog, selected
\* movie, algorithm and topN.
C1_NeverRecommendsSelected ==
    call.fn \in {"getRecommendations", "getRecommendationsJs"} =>
        \A k \in 1..Len(call.ret) : call.ret[k].id # input.selectedMovie.id

\* getRecommendations has returned entries from a catalog that holds the selected
\* movie's id twice and too few movies of its genres, so that the candidates are
\* all the movies of another id.
C1_Witness ==
    /\ call.fn = "getRecommendations"
    /\ Cardinality({k \in 1..Len(input.movies) :
                       input.movies[k].id = input.selectedMovie.id}) = 2
    /\ Len(SameGenreMovies(input.movies, input.selectedMovie)) < input.topN * 2
    /\ Len(call.ret) > 0

\* C2: for topN >= 0 getRecommendations returns at most topN entries, each entry's
\* similarityScore at least that of the entry after it.
C2_AtMostTopNDescending ==
    (call.fn = "getRecommendations" /\ input.topN >= 0) =>
        /\ Len(call.ret) <= input.topN
        /\ \A k \in 1..(Len(call.ret) - 1) :
               NLeq(call.ret[k + 1].similarityScore, call.ret[k].similarityScore)

\* getRecommendations has cut three candidates to the two of the highest scores,
\* the first of them with the higher score and later in the catalog.
C2_Witness ==
    /\ call.fn = "getRecommendations"
    /\ input.topN = 2
    /\ Len(CandidateMovies(input.movies, input.selectedMovie, input.topN)) = 3
    /\ Len(call.ret) = 2
    /\ NLess(call.ret[2].similarityScore, call.ret[1].similarityScore)
    /\ call.ret[1].id = input.movies[3].id
    /\ call.ret[2].id = input.movies[1].id
    /\ input.movies[1].id # input.movies[3].id

\* The places in the catalog of the movies other than the selected one
Others == {k \in 1..Len(input.movies) : input.movies[k].id # input.selectedMovie.id}

\* The places of the movies other than the selected one that share a genre label
\* with it
SharingGenre ==
    {k \in Others :
        Range(input.movies[k].genre) \cap Range(input.selectedMovie.genre) # {}}

\* The entry is the movie at one of the places, with its score
IsScoredCopy(entry, places) ==
    \E k \in places :
        /\ DOMAIN entry = DOMAIN input.movies[k] \cup {"similarityScore"}
        /\ \A field \in DOMAIN input.movies[k] : entry[field] = input.movies[k][field]

\* C20: with S the movies other than the selected one that share a genre label
\* with it, if |S| >= 2 * topN every recommendation is a member of S; if
\* |S| < 2 * topN the candidates are all the movies other than the selected one,
\* and there are exactly min(topN, their number) recommendations.
C20_SoftGenrePreference ==
    call.fn = "getRecommendations" =>
        IF Cardinality(SharingGenre) >= 2 * input.topN
        THEN \A k \in 1..Len(call.ret) : IsScoredCopy(call.ret[k], SharingGenre)
        ELSE /\ Len(call.ret) = Min(input.topN, Cardinality(Others))
             /\ \A k \in 1..Len(call.ret) : IsScoredCopy(call.ret[k], Others)

\* getRecommendations has fallen back to all the other movies although one
\* shares a genre with the selected movie, and recommends one that shares none.
C20_Witness ==
    /\ call.fn = "getRecommendations"
    /\ SharingGenre # {}
    /\ Cardinality(SharingGenre) < 2 * input.topN
    /\ Len(call.ret) = input.topN
    /\ \E k \in 1..Len(call.ret) : ~IsScoredCopy(call.ret[k], SharingGenre)

\* The reference title tokens: the pieces of the lowercased title between
\* whitespace and colons that have at least 3 characters, are not all digits and
\* are none of the five excluded words
C21_IsToken(piece) ==
    /\ Len(piece) >= 3
    /\ \E i \in 1..Len(piece) : piece[i] \notin Digits
    /\ piece \notin {<<"t","h","e">>, <<"a","n","d">>, <<"p","a","r","t">>,
                      <<"v","o","l">>, <<"v","o","l","u","m","e">>}

C21_Tokens(title) == SelectSeq(splitSpaceColon(toLowerCase(title)), C21_IsToken)

\* (the tokens that occur in the candidate's lowercased title / the tokens) * 0.25
C21_Bonus(tokens, title) ==
    IF tokens = <<>> THEN RInt(0)
    ELSE RMul(RNorm(Cardinality({k \in 1..Len(tokens) :
                                    includes(toLowerCase(title), tokens[k])}),
                    Len(tokens)),
              RNorm(1, 4))

\* The movie of a recommendation: the entry less its score
CandidateOf(entry) == [field \in DOMAIN entry \ {"similarityScore"} |-> entry[field]]

RatingInRange(movie) == RLeq(RInt(0), movie.rating) /\ RLeq(movie.rating, RInt(10))

\* The score of a recommendation is calculateMovieSimilarity plus the bonus
C21_ScoreIsBasePlusBonus ==
    call.fn = "getRecommendations" =>
        \A k \in 1..Len(call.ret) :
            TheOne({ call.ret[k].similarityScore
                         = NAdd(calculateMovieSimilarity(
                                    EmptyCache, movie, ReferenceText(input.selectedMovie),
                                    input.algorithm, input.selectedMovie).ret,
                                NRat(C21_Bonus(C21_Tokens(input.selectedMovie.title),
                                               movie.title)))
                      :  movie \in {CandidateOf(call.ret[k])} })

\* C21: each candidate's similarityScore is calculateMovieSimilarity(candidate,
\* referenceText, algorithm, selectedMovie) plus the franchise bonus, (matching
\* reference title tokens / reference title tokens) * 0.25 and 0 without tokens;
\* the bonus lies in [0, 0.25] and, for ratings in [0,10], the score in [0, 1.25].
C21_ScoreWithFranchiseBonus ==
    call.fn = "getRecommendations" =>
        /\ C21_ScoreIsBasePlusBonus
        /\ \A k \in 1..Len(call.ret) :
               TheOne({ /\ RLeq(RInt(0), bonus) /\ RLeq(bonus, RNorm(1, 4))
                        /\ (RatingInRange(call.ret[k])
                                /\ RatingInRange(input.selectedMovie))
                            => /\ NLeq(NZero, call.ret[k].similarityScore)
                               /\ NLeq(call.ret[k].similarityScore, NRat(RNorm(5, 4)))
                         :  bonus \in {C21_Bonus(C21_Tokens(input.selectedMovie.title),
                                                 call.ret[k].title)} })

\* The places of the candidates: the movies sharing a genre when there are at
\* least 2 * topN of them, all the other movies otherwise
C22_Candidates == IF Cardinality(SharingGenre) >= 2 * input.topN THEN SharingGenre ELSE Others

\* The place in the catalog of the movie of a recommendation
C22_Place(entry) == CHOOSE k \in 1..Len(input.movies) : IsScoredCopy(entry, {k})

\* The final score of the candidate at a place of the catalog
C22_Score(k) ==
    NAdd(calculateMovieSimilarity(EmptyCache, input.movies[k],
                                  ReferenceText(input.selectedMovie), input.algorithm,
                                  input.selectedMovie).ret,
         NRat(C21_Bonus(C21_Tokens(input.selectedMovie.title), input.movies[k].title)))

\* The places of the candidates that are not recommended
C22_LeftOut == {k \in C22_Candidates : \A a \in 1..Len(call.ret) : C22_Place(call.ret[a]) # k}

\* C22: the ranking is deterministic for equal scores: two candidates of equal
\* final similarityScore appear in the result in the order they have in the
\* catalog, and if only one of them fits within topN it is the earlier one.
C22_TiesInCatalogOrder ==
    call.fn = "getRecommendations" =>
        /\ \A a, b \in 1..Len(call.ret) :
               (a < b /\ call.ret[a].similarityScore = call.ret[b].similarityScore)
                   => C22_Place(call.ret[a]) < C22_Place(call.ret[b])
        /\ \A a \in 1..Len(call.ret) :
               \A k \in C22_LeftOut :
                   C22_Score(k) = call.ret[a].similarityScore
                       => C22_Place(call.ret[a]) < k

\* Two recommendations have the same score, and a candidate with the score of
\* a recommendation has not fitted within topN.
C22_Witness ==
    /\ call.fn = "getRecommendations"
    /\ input.topN > 0
    /\ \E a, b \in 1..Len(call.ret) :
           a < b /\ call.ret[a].similarityScore = call.ret[b].similarityScore
    /\ \E a \in 1..Len(call.ret) :
           \E k \in C22_LeftOut : C22_Score(k) = call.ret[a].similarityScore

(***************************************************************************)
(* The claims about the score of one movie, under ScoreSpec.               *)
(***************************************************************************)
\* The text similarity of the selected algorithm, the cache empty
TextSimilarity(algorithm, movieText, query) ==
    CASE algorithm = "jaccard" -> jaccardSimilarity(EmptyCache, movieText, query).ret
      [] algorithm = "cosine" -> cosineSimilarity(EmptyCache, movieText, query).ret
      [] algorithm = "levenshtein" -> levenshteinSimilarity(movieText, query)
      [] OTHER -> combinedSimilarity(EmptyCache, movieText, query).ret

\* The text a movie is compared by: its description twice, then its genres
ComparisonText(movie) ==
    Spaced(Spaced(movie.description, movie.description), joinSpace(movie.genre))

\* 0.365 * text + 0.25 * genre + 0.35 * rating + 0.035 * director
C12_Weighted(text, movie, referenceMovie) ==
    NAdd(NAdd(NAdd(NScale(RNorm(365, 1000), text),
                   NScale(RNorm(25, 100),
                          genreSimilarity(movie.genre, referenceMovie.genre))),
              NScale(RNorm(35, 100),
                     ratingSimilarity(movie.rating, referenceMovie.rating))),
         NScale(RNorm(35, 1000),
                directorSimilarity(movie.director, referenceMovie.director)))

\* The first half of C12: the weighted sum with a reference movie, the text
\* similarity alone without one
C12_ScoreAsStated ==
    LET text == TextSimilarity(input.algorithm, ComparisonText(input.movie), input.query)
    IN  IF input.referenceMovie # NoMovie
        THEN call.ret = C12_Weighted(text, input.movie, input.referenceMovie)
        ELSE call.ret = text

SameAttributesPresent(movie, referenceMovie) ==
    /\ movie.genre # <<>>
    /\ LowerSet(movie.genre) = LowerSet(referenceMovie.genre)
    /\ movie.rating = referenceMovie.rating
    /\ ~IsFalsy(movie.director)
    /\ ~IsFalsy(referenceMovie.director)
    /\ toLowerCase(movie.director) = toLowerCase(referenceMovie.director)

EqualIgnoringCase(title, searchTerm) == toLowerCase(title) = toLowerCase(searchTerm)

\* C3: when the catalog holds a movie whose title equals the search term
\* case-insensitively, findClosestMatch (in both implementations) returns the first
\* such movie of the catalog, with similarity exactly 1.
C3_ExactTitleIsCertain ==
    call.fn \in {"findClosestMatch", "findClosestMatchJs"} =>
        \A k \in 1..Len(input.movies) :
            (/\ EqualIgnoringCase(input.movies[k].title, input.searchTerm)
             /\ \A h \in 1..(k - 1) :
                    ~EqualIgnoringCase(input.movies[h].title, input.searchTerm))
                => /\ call.ret.movie = input.movies[k]
                   /\ call.ret.similarity = NOne

\* C4: searchMovies returns at most maxResults entries, each of a searchScore
\* strictly greater than 0.1 and at least that of the entry after it.
C4_SearchResultsBounded ==
    call.fn = "searchMovies" =>
        /\ Len(call.ret) <= input.maxResults
        /\ \A k \in 1..Len(call.ret) :
               NLess(NRat(RNorm(1, 10)), call.ret[k].searchScore)
        /\ \A k \in 1..(Len(call.ret) - 1) :
               NLeq(call.ret[k + 1].searchScore, call.ret[k].searchScore)

\* searchMovies has dropped a poor match of a catalog of three movies and
\* returned the other two, the first of them with the higher score and later in
\* the catalog.
C4_Witness ==
    /\ call.fn = "searchMovies"
    /\ input.maxResults = 2
    /\ Len(input.movies) = 3
    /\ Len(call.ret) = 2
    /\ NLess(call.ret[2].searchScore, call.ret[1].searchScore)
    /\ \E k \in 1..3 : \A h \in 1..2 : call.ret[h].title # input.movies[k].title
    /\ \E i, j \in 1..3 :
           /\ i < j
           /\ call.ret[1].title = input.movies[j].title
           /\ call.ret[2].title = input.movies[i].title
           /\ input.movies[i].title # input.movies[j].title

\* The title-match scores of the movies of the catalog
MatchScores == [k \in 1..Len(input.movies) |->
                   MatchSimilarity(input.movies[k], input.searchTerm)]

\* C17 as stated: findClosestMatch returns the movie of the catalog whose
\* title-match score is the maximum over a catalog that is not empty, with that
\* score, and the first of the movies that attain it.
C17_Original ==
    (call.fn = "findClosestMatch" /\ Len(input.movies) > 0) =>
        \E k \in 1..Len(input.movies) :
            /\ call.ret = [movie |-> input.movies[k], similarity |-> MatchScores[k]]
            /\ \A j \in 1..Len(input.movies) : NLeq(MatchScores[j], MatchScores[k])
            /\ \A j \in 1..(k - 1) : NLess(MatchScores[j], MatchScores[k])

\* C17 (amended): when some movie of the catalog has a title-match score greater
\* than 0, findClosestMatch returns the first movie in catalog order whose score
\* is the maximum, with that score; when none has, it returns null with the
\* similarity 0.
C17_FirstMaximum ==
    call.fn = "findClosestMatch" =>
        TheOne({ IF \A j \in 1..Len(input.movies) : NLeq(scores[j], NZero)
                 THEN call.ret = [movie |-> NoMovie, similarity |-> NZero]
                 ELSE \E k \in 1..Len(input.movies) :
                          /\ call.ret = [movie |-> input.movies[k],
                                         similarity |-> scores[k]]
                          /\ \A j \in 1..Len(input.movies) : NLeq(scores[j], scores[k])
                          /\ \A j \in 1..(k - 1) : NLess(scores[j], scores[k])
                  :  scores \in {MatchScores} })

\* findClosestMatch has returned the second movie of three: the first scores
\* less, the third scores the same.
C17_Witness ==
    /\ call.fn = "findClosestMatch"
    /\ Len(input.movies) = 3
    /\ call.ret.movie = input.movies[2]
    /\ NLess(MatchScores[1], MatchScores[2])
    /\ MatchScores[3] = MatchScores[2]
    /\ NLess(NZero, MatchScores[1])

\* The value of the first applicable rule of the cascade, the title and the search
\* term compared in lower case
C18_Score(title, searchTerm) ==
    LET titleLower == toLowerCase(title)
        searchLower == toLowerCase(searchTerm)
        titleTokens == LongWords(titleLower)
        searchTokens == LongWords(searchLower)
    IN  IF titleLower = searchLower THEN NOne
        ELSE IF includes(titleLower, searchLower)
        THEN NRat(RAdd(RNorm(85, 100),
                       RMul(RNorm(Len(searchLower), Len(titleLower)), RNorm(15, 100))))
        ELSE IF includes(searchLower, titleLower) THEN NRat(RNorm(80, 100))
        ELSE IF titleTokens # {} /\ searchTokens # {}
        THEN NAdd(NRat(RMul(RNorm(7, 10),
                            RNorm(Cardinality(searchTokens \cap titleTokens),
                                  Max(Cardinality(searchTokens),
                                      Cardinality(titleTokens))))),
                  NScale(RNorm(3, 10), levenshteinSimilarity(title, searchTerm)))
        ELSE levenshteinSimilarity(title, searchTerm)

\* C18: the title-match score findClosestMatch gives a movie is the value of the
\* first applicable rule: the title equals the search term up to case -> 1.0; the
\* title contains the search term -> 0.85 + (len(searchTerm) / len(title)) * 0.15;
\* the search term contains the title -> 0.80; otherwise, when both have tokens
\* longer than 2 characters, 0.7 * (matching tokens / the larger number of tokens)
\* + 0.3 * levenshteinSimilarity(title, searchTerm), else levenshteinSimilarity
\* alone.  The score lies in [0,1] and is 1.0 only under the first rule.
C18_CascadeAsStated ==
    call.fn = "findClosestMatch" =>
        \A k \in 1..Len(input.movies) :
            TheOne({ /\ score = C18_Score(input.movies[k].title, input.searchTerm)
                     /\ InUnitInterval(score)
                     /\ score = NOne
                            => EqualIgnoringCase(input.movies[k].title, input.searchTerm)
                      :  score \in {MatchSimilarity(input.movies[k], input.searchTerm)} })

\* The movie of an entry that searchMovies returns: the entry less its scores
MovieOf(entry) ==
    [field \in DOMAIN entry \ {"searchScore", "titleScore", "contentScore"} |->
        entry[field]]

\* C19: the titleScore that searchMovies computes for a movie is the title-match
\* score that findClosestMatch computes for the same movie and term, contentScore
\* is combinedSimilarity of the movie's description and genres with the term, and
\* searchScore = 0.8 * titleScore + 0.2 * contentScore.
C19_SearchScores ==
    /\ \A k \in 1..Len(input.movies) :
           TitleScore(input.movies[k], input.searchTerm)
               = MatchSimilarity(input.movies[k], input.searchTerm)
    /\ call.fn = "searchMovies" =>
           \A k \in 1..Len(call.ret) :
               TheOne({ /\ movie \in Range(input.movies)
                        /\ call.ret[k].titleScore
                               = MatchSimilarity(movie, input.searchTerm)
                        /\ call.ret[k].contentScore
                               = combinedSimilarity(EmptyCache, ReferenceText(movie),
                                                    input.searchTerm).ret
                        /\ call.ret[k].searchScore
                               = NAdd(NScale(RNorm(8, 10), call.ret[k].titleScore),
                                      NScale(RNorm(2, 10), call.ret[k].contentScore))
                         :  movie \in {MovieOf(call.ret[k])} })

\* searchMovies has returned a movie whose title neither holds the search term
\* nor is held by it, scored by its words, with a content score above 0.
C19_Witness ==
    /\ call.fn = "searchMovies"
    /\ \E k \in 1..Len(call.ret) :
           /\ ~includes(toLowerCase(call.ret[k].title), toLowerCase(input.searchTerm))
           /\ ~includes(toLowerCase(input.searchTerm), toLowerCase(call.ret[k].title))
           /\ LongWords(toLowerCase(call.ret[k].title)) # {}
           /\ LongWords(toLowerCase(input.searchTerm)) # {}
           /\ NLess(NRat(RNorm(7, 10)), call.ret[k].titleScore)
           /\ NLess(NZero, call.ret[k].contentScore)

\* C23: absence of a match is a value: for the empty catalog findClosestMatch
\* returns a null movie with confidence 0 and searchMovies returns an empty
\* sequence, and for every catalog and search term the result of
\* findClosestMatch has a null movie if and only if its confidence is 0.
C23_NoMatchIsAValue ==
    /\ call.fn = "findClosestMatch" =>
           /\ call.ret.movie = NoMovie <=> call.ret.similarity = NZero
           /\ input.movies = <<>> =>
                  call.ret = [movie |-> NoMovie, similarity |-> NZero]
    /\ (call.fn = "searchMovies" /\ input.movies = <<>>) => call.ret = <<>>

\* findClosestMatch has returned no movie and confidence 0 for a catalog of
\* three movies, one of which scores 0 and one of which scores less.
C23_Witness ==
    /\ call.fn = "findClosestMatch"
    /\ Len(input.movies) = 3
    /\ call.ret = [movie |-> NoMovie, similarity |-> NZero]
    /\ \E j \in 1..3 : MatchScores[j] = NZero
    /\ \E j \in 1..3 : NLess(MatchScores[j], NZero)

(***************************************************************************)
(* The claims about the engine as a whole, under EngineSpec.               *)
(***************************************************************************)
ScoreFields == {"similarityScore", "searchScore", "titleScore", "contentScore"}

\* The entry is one of the movies with the score fields added, and no movie has
\* a score field
IsCopyWith(entry, movies, added) ==
    /\ \E k \in 1..Len(movies) :
           /\ DOMAIN entry = DOMAIN movies[k] \cup added
           /\ \A field \in DOMAIN movies[k] : entry[field] = movies[k][field]
    /\ \A k \in 1..Len(movies) : DOMAIN movies[k] \cap ScoreFields = {}

\* What a call has returned is made of new records
ReturnsNewRecords ==
    /\ call.fn \in {"getRecommendations", "getRecommendationsJs"} =>
           /\ \A k \in 1..Len(call.ret) :
                  IsCopyWith(call.ret[k], input.movies, {"similarityScore"})
           /\ DOMAIN input.selectedMovie \cap ScoreFields = {}
    /\ call.fn = "searchMovies" =>
           \A k \in 1..Len(call.ret) :
               IsCopyWith(call.ret[k], input.movies,
                          {"searchScore", "titleScore", "contentScore"})
    /\ call.fn \in {"findClosestMatch", "findClosestMatchJs"} =>
           /\ DOMAIN call.ret = {"movie", "similarity"}
           /\ call.ret.movie \in Range(input.movies) \cup {NoMovie}
    /\ call.fn \in {"calculateMovieSimilarity", "calculateMovieSimilarityJs"} =>
           /\ DOMAIN call.ret = {"q", "t"}
           /\ DOMAIN input.movie \cap ScoreFields = {}

C25_PosterFetchedFor(movie) ==
    TheOne({ IF IsFound(data) THEN TransformedMovie(data).poster ELSE null
              :  data \in {OmdbMovie(movie.title, YearText(movie.year))} })

\* The movie objects of the page
C25_Movies == Range(page.moviesData) \cup Range(page.fetched)

\* C25: under any interleaving of the user's selections with the poster fetches
\* that are pending, a poster fetched for a movie M is only ever stored in the
\* poster field of M: the poster of every movie object is the one it came with
\* (none, for the movies of the catalog) or the poster fetched for that movie.
C25_PostersStayWithTheirMovie ==
    \A movie \in C25_Movies :
        movie.poster = null \/ movie.poster = C25_PosterFetchedFor(movie)

============================================================================
